---- MODULE Spec2Model ----
(***************************************************************************)
(* ProbKit: the SPSC ring (cli/util/spsc_ring.hpp) and the reader /        *)
(* workers / reducer ingest pipeline of the hll and cms subcommands.       *)
(***************************************************************************)
EXTENDS Integers, Naturals, Sequences, FiniteSets, TLC

\* ------------------------------------------------------------------ bounds
\* capacity_ of the ring under test (the CLI uses 1 << 14)
RingCap == 3
\* number of values the producer offers to the ring under test
MaxPush == 5
\* worker threads of a pipeline run (--threads)
NumWorkers == 2
\* lines of the input stream
NumLines == 2
\* slots of each pipeline ring (the CLI uses 1 << 14)
PipeCap == 2
\* bucket deadlines that can pass during a run
MaxRotations == 2
\* largest --stop-after value tried (0 = unlimited)
MaxStopAfter == 1
\* distinct elements offered to a bloom filter / count-min sketch
NumKeys == 2
\* 64-bit words of the smallest bloom filter built
BloomWords == 1
\* add, might_contain and merge operations applied to the filters
BloomMaxOps == 4
\* rows and columns of the count-min table, and operations applied to it
CmsDepth == 2
CmsWidth == 2
CmsMaxOps == 3
\* add and merge operations applied to the hll sketches
HllMaxOps == 3
\* longest string over DurAlphabet offered to parse_duration
MaxDurLen == 3
\* largest small thread index offered to derive_thread_salt
MaxThreadIndex == 3
\* objects of type expected<T, E> and distinct payload values
NumObjects == 3
NumPayloads == 2
\* largest argc of a run of the executable
MaxArgc == 4

\* ------------------------------------------------------------------ state
VARIABLES
  \* --- spsc_ring<T> under test, one producer thread, one consumer thread
  head_,      \* std::atomic<size_t> head_
  tail_,      \* std::atomic<size_t> tail_
  data_,      \* std::vector<T> data_ (0 = default-constructed / moved-from)
  headCnt,    \* history: number of stores to head_ (its modification order)
  tailCnt,    \* history: number of stores to tail_
  ppc,        \* producer position inside push / try_emplace
  p_head,     \* producer local `head`
  p_next,     \* producer local `next`
  p_line,     \* the caller's `line` passed as std::move(line) (0 = moved-from)
  p_obs,      \* tail value the producer's acquire load returned
  p_seen,     \* newest store to tail_ the producer has observed so far
  p_val,      \* value being pushed
  p_ret,      \* result of the last finished push: "none", "ok", "full"
  cpc,        \* consumer position inside pop
  c_tail,     \* consumer local `tail`
  c_obs,      \* head value the consumer's acquire load returned
  c_seen,     \* newest store to head_ the consumer has observed so far
  c_out,      \* consumer's `out` argument
  c_ret,      \* result of the last finished pop: "none", "ok", "empty"
  accepted,   \* history: values of successful pushes, in order
  popped,     \* history: values returned by successful pops, in order
  \* --- one pipeline run (cmd_hll / cmd_cms / cmd_bloom)
  cmd,            \* subcommand: "hll", "cms" or "bloom" ("none": no run)
  has_jthread,    \* PROBKIT_HAS_JTHREAD && PROBKIT_HAS_STOP_TOKEN
  bucket_mode,    \* !g.bucket.empty()
  done,           \* std::atomic<bool> done
  merging,        \* std::atomic<bool> merging
  paused,         \* std::atomic<int> paused_workers
  workers_ended,  \* std::atomic<bool> workers_ended
  stop_req,       \* stop token of each worker jthread
  reducer_stop,   \* stop token of the reducer jthread
  rings,          \* contents of rings[w], oldest first
  rdpc,           \* reader position (bloom: the read loop main runs itself)
  next_line,      \* next input line std::getline returns
  shard,          \* reader local `shard` (cms round robin)
  wpc,            \* worker thread positions
  counted_pause,  \* worker local `counted_pause`
  item,           \* worker local `item`
  locals,         \* thread-local sketches / bloom filters
  acc,            \* reducer's accumulator sketch
  global,         \* sketch of the final merge; single-worker sketch / filter
  dpc,            \* reducer thread position
  finishing,      \* reducer local: done && workers_ended at the decision
  rot,            \* bucket deadlines passed so far
  bucket_start,   \* reducer local, in units of bucket_ns since start
  snapshots,      \* emitted snapshots, in order
  mpc,            \* main thread position
  pop_started,    \* history: rotations started when line l was popped
  pop_cleared,    \* history: rotations cleared when line l was popped
  rot_started,    \* history: rotations the reducer has started
  rot_cleared,    \* history: rotations the reducer has finished
  input_ok,       \* open_input(g, ...) succeeds
  bucket_ok,      \* parse_duration(g.bucket, ...) succeeds
  stop_after,     \* g.stop_after
  processed,      \* reader local `processed` / `limit_counter`
  result,         \* CommandResult returned by the command ("none": running)
  single,         \* num_workers <= 1: the command runs on the main thread
  content,        \* text of each input line (equal numbers: equal lines)
  shard_of,       \* hash64(text, g.hash) % num_workers of each text
  emitted,        \* lines written to stdout by bloom dedup, in order
  \* --- two bloom::filter objects driven through their public interface
  bf,             \* the filters: bits_ (indices of set bits), m_bits_, k_, hash_cfg_
  bf_added,       \* history: <<x, "add">> / <<x, "merge">> each filter took in
  bf_h1,          \* hash64(x, hash_cfg_) of each element
  bf_h2,          \* hash64(x, cfg2) of each element, cfg2.seed = second_seed()
  bf_pos,         \* the k bit positions of each element in each filter
  bf_op,          \* history: the last operation and what it returned
  bf_ops,         \* history: add, might_contain and merge operations so far
  \* --- two cms::sketch objects driven through their public interface
  cs,             \* the sketches: table_, depth_, width_, hash_cfg_
  cs_true,        \* history: total count added for each element, per sketch
  cs_col,         \* hash_row(x, hash_cfg_, r) % width_ of each element and row
  cs_ovf,         \* history: some 64-bit addition has wrapped around
  cs_ops,         \* history: operations applied so far
  cs_op,          \* history: the last operation and what it returned
  \* --- two hll::sketch objects driven through their public interface
  hl,             \* the sketches: p_, hash_cfg_, registers_ (size and non-zero entries)
  hl_hash,        \* hash64(x, cfg) of each element and hash config hashed so far
  hl_op,          \* history: the last operation and what it returned
  hl_ops,         \* history: add and merge operations applied so far
  \* --- one call of timeutil::parse_duration
  pd_in,          \* the argument s, a sequence of characters
  pd_ret,         \* the value returned ("none" before the call)
  pd_out,         \* the out parameter, nanoseconds as a 64-bit two's complement
  \* --- two calls of hashing::derive_thread_salt
  ts_base,        \* the base seed of both calls
  ts_i,           \* thread_index of the first call
  ts_j,           \* thread_index of the second call
  ts_salt,        \* the two values returned (empty before the calls)
  \* --- one run of the probkit executable (main)
  mn_argv,        \* argv: argv[0] and the arguments, each [opt, val]
  mn_pc,          \* "idle", "start", "dispatch", "cmd", "exit"
  mn_g,           \* GlobalOptions g (the fields json and threads)
  mn_opt,         \* history: the OptionResult that ended the option loop
  mn_start,       \* main's local cmd_start
  mn_cmd,         \* history: the subcommand called ("none" if none)
  mn_res,         \* history: the CommandResult it returned (-1 if none)
  mn_exit,        \* the value main returned (-1 while running)
  \* --- objects of type expected<T, E> (result<T>)
  ex,             \* per object: lifetime, has_, storage_.val, storage_.err
  ex_op,          \* history: the last operation, its source and target
  ex_ub           \* history: a payload that is not alive was destroyed or read

ringVars == <<head_, tail_, data_, headCnt, tailCnt, ppc, p_head, p_next, p_line, p_obs,
              p_seen, p_val, p_ret, cpc, c_tail, c_obs, c_seen, c_out, c_ret,
              accepted, popped>>

pipeVars == <<cmd, has_jthread, bucket_mode, done, merging, paused, workers_ended,
              stop_req, reducer_stop, rings, rdpc, next_line, shard, wpc,
              counted_pause, item, locals, acc, global, dpc, finishing, rot,
              bucket_start, snapshots, mpc, pop_started, pop_cleared,
              rot_started, rot_cleared, input_ok, bucket_ok, stop_after,
              processed, result, single, content, shard_of, emitted>>

bloomVars == <<bf, bf_added, bf_h1, bf_h2, bf_pos, bf_op, bf_ops>>

cmsVars == <<cs, cs_true, cs_col, cs_ovf, cs_ops, cs_op>>

hllVars == <<hl, hl_hash, hl_op, hl_ops>>

durVars == <<pd_in, pd_ret, pd_out>>

saltVars == <<ts_base, ts_i, ts_j, ts_salt>>

expVars == <<ex, ex_op, ex_ub>>

mainVars == <<mn_argv, mn_pc, mn_g, mn_opt, mn_start, mn_cmd, mn_res, mn_exit>>

vars == <<ringVars, pipeVars, bloomVars, cmsVars, hllVars, durVars, saltVars,
         mainVars, expVars>>

Keys == 1 .. NumKeys
Filters == 1 .. 2

Workers == 1 .. NumWorkers
Lines == 1 .. NumLines

Slots == 0 .. (RingCap - 1)

\* 64-bit unsigned values as 8 bytes, least significant first
U64(b0, b1, b2, b3, b4, b5, b6, b7) == <<b0, b1, b2, b3, b4, b5, b6, b7>>

Zero64 == U64(0, 0, 0, 0, 0, 0, 0, 0)

\* HashConfig{} as the CLI leaves it: seed 0, thread_salt 0
g_hash == [kind |-> "wyhash", seed |-> Zero64, thread_salt |-> Zero64]

\* ------------------------------------------------------------ spsc_ring
RingStart ==
  /\ head_ = 0 /\ tail_ = 0
  /\ data_ = [i \in Slots |-> 0]
  /\ headCnt = 0 /\ tailCnt = 0
  /\ ppc = "idle" /\ p_head = 0 /\ p_next = 0 /\ p_obs = 0 /\ p_seen = 0
  /\ p_val = 0 /\ p_ret = "none" /\ p_line = 0
  /\ cpc = "idle" /\ c_tail = 0 /\ c_obs = 0 /\ c_seen = 0 /\ c_out = 0
  /\ c_ret = "none"
  /\ accepted = << >> /\ popped = << >>

\* the caller reads the next line once the last one is enqueued and
\* otherwise retries with the same variable (dispatch_line's loop);
\* push / try_emplace: head_.load(relaxed); next = (head + 1) % capacity_
push_load_head ==
  /\ ppc = "idle"
  /\ Len(accepted) < MaxPush
  /\ p_head' = head_
  /\ p_next' = (head_ + 1) % RingCap
  /\ p_line' = IF p_ret = "full" THEN p_line ELSE Len(accepted) + 1
  /\ p_val' = p_line'
  /\ ppc' = "load_tail"
  /\ UNCHANGED <<head_, tail_, data_, headCnt, tailCnt, p_obs, p_seen, p_ret,
                 cpc, c_tail, c_obs, c_seen, c_out, c_ret, accepted, popped,
                 cmd, has_jthread, bucket_mode, done, merging, paused,
                 workers_ended, stop_req, reducer_stop, rings, rdpc,
                 next_line, shard, wpc, counted_pause, item, locals, acc,
                 global, dpc, finishing, rot, bucket_start, snapshots, mpc,
                 pop_started, pop_cleared, rot_started, rot_cleared,
                 input_ok, bucket_ok, stop_after, processed, result, single,
                 content, shard_of, emitted, bf, bf_added, bf_h1, bf_h2,
                 bf_pos, bf_op, bf_ops, cs, cs_true, cs_col, cs_ovf, cs_ops,
                 cs_op, hl, hl_hash, hl_op, hl_ops, pd_in, pd_ret, pd_out,
                 ts_base, ts_i, ts_j, ts_salt, mn_argv, mn_pc, mn_g, mn_opt,
                 mn_start, mn_cmd, mn_res, mn_exit, ex, ex_op, ex_ub>>
\* push_load_tail with the full test written as head == tail
push_load_tail_head_eq_tail ==
  /\ ppc = "load_tail"
  /\ \E t \in p_seen .. tailCnt :
       /\ p_seen' = t
       /\ p_obs' = t % RingCap
       /\ IF p_head = t % RingCap
            THEN /\ ppc' = "idle"
                 /\ p_ret' = "full"
            ELSE /\ ppc' = "write"
                 /\ p_ret' = p_ret
  /\ UNCHANGED <<head_, tail_, data_, headCnt, tailCnt, p_head, p_next,
                 p_line, p_val, cpc, c_tail, c_obs, c_seen, c_out, c_ret,
                 accepted, popped, cmd, has_jthread, bucket_mode, done,
                 merging, paused, workers_ended, stop_req, reducer_stop,
                 rings, rdpc, next_line, shard, wpc, counted_pause, item,
                 locals, acc, global, dpc, finishing, rot, bucket_start,
                 snapshots, mpc, pop_started, pop_cleared, rot_started,
                 rot_cleared, input_ok, bucket_ok, stop_after, processed,
                 result, single, content, shard_of, emitted, bf, bf_added,
                 bf_h1, bf_h2, bf_pos, bf_op, bf_ops, cs, cs_true, cs_col,
                 cs_ovf, cs_ops, cs_op, hl, hl_hash, hl_op, hl_ops, pd_in,
                 pd_ret, pd_out, ts_base, ts_i, ts_j, ts_salt, mn_argv,
                 mn_pc, mn_g, mn_opt, mn_start, mn_cmd, mn_res, mn_exit, ex,
                 ex_op, ex_ub>>
\* push_load_tail constructing T from the argument before the full test
push_load_tail_consumes_arg ==
  /\ ppc = "load_tail"
  /\ p_line' = 0
  /\ \E t \in p_seen .. tailCnt :
       /\ p_seen' = t
       /\ p_obs' = t % RingCap
       /\ IF p_next = t % RingCap
            THEN /\ ppc' = "idle"
                 /\ p_ret' = "full"
            ELSE /\ ppc' = "write"
                 /\ p_ret' = p_ret
  /\ UNCHANGED <<head_, tail_, data_, headCnt, tailCnt, p_head, p_next,
                 p_val, cpc, c_tail, c_obs, c_seen, c_out, c_ret, accepted,
                 popped, cmd, has_jthread, bucket_mode, done, merging,
                 paused, workers_ended, stop_req, reducer_stop, rings, rdpc,
                 next_line, shard, wpc, counted_pause, item, locals, acc,
                 global, dpc, finishing, rot, bucket_start, snapshots, mpc,
                 pop_started, pop_cleared, rot_started, rot_cleared,
                 input_ok, bucket_ok, stop_after, processed, result, single,
                 content, shard_of, emitted, bf, bf_added, bf_h1, bf_h2,
                 bf_pos, bf_op, bf_ops, cs, cs_true, cs_col, cs_ovf, cs_ops,
                 cs_op, hl, hl_hash, hl_op, hl_ops, pd_in, pd_ret, pd_out,
                 ts_base, ts_i, ts_j, ts_salt, mn_argv, mn_pc, mn_g, mn_opt,
                 mn_start, mn_cmd, mn_res, mn_exit, ex, ex_op, ex_ub>>
\* tail_.load(acquire): any store to tail_ not older than the last one seen;
\* if (next == tail) return false
push_load_tail ==
  /\ ppc = "load_tail"
  /\ \E t \in p_seen .. tailCnt :
       /\ p_seen' = t
       /\ p_obs' = t % RingCap
       /\ IF p_next = t % RingCap
            THEN /\ ppc' = "idle"
                 /\ p_ret' = "full"
            ELSE /\ ppc' = "write"
                 /\ p_ret' = p_ret
  /\ UNCHANGED <<head_, tail_, data_, headCnt, tailCnt, p_head, p_next,
                 p_line, p_val, cpc, c_tail, c_obs, c_seen, c_out, c_ret,
                 accepted, popped, cmd, has_jthread, bucket_mode, done,
                 merging, paused, workers_ended, stop_req, reducer_stop,
                 rings, rdpc, next_line, shard, wpc, counted_pause, item,
                 locals, acc, global, dpc, finishing, rot, bucket_start,
                 snapshots, mpc, pop_started, pop_cleared, rot_started,
                 rot_cleared, input_ok, bucket_ok, stop_after, processed,
                 result, single, content, shard_of, emitted, bf, bf_added,
                 bf_h1, bf_h2, bf_pos, bf_op, bf_ops, cs, cs_true, cs_col,
                 cs_ovf, cs_ops, cs_op, hl, hl_hash, hl_op, hl_ops, pd_in,
                 pd_ret, pd_out, ts_base, ts_i, ts_j, ts_salt, mn_argv,
                 mn_pc, mn_g, mn_opt, mn_start, mn_cmd, mn_res, mn_exit, ex,
                 ex_op, ex_ub>>
\* push_write storing into data_[next] instead of data_[head]
push_write_at_next ==
  /\ ppc = "write"
  /\ data_' = [data_ EXCEPT ![p_next] = p_line]
  /\ p_line' = 0
  /\ ppc' = "publish"
  /\ UNCHANGED <<head_, tail_, headCnt, tailCnt, p_head, p_next, p_obs,
                 p_seen, p_val, p_ret, cpc, c_tail, c_obs, c_seen, c_out,
                 c_ret, accepted, popped, cmd, has_jthread, bucket_mode,
                 done, merging, paused, workers_ended, stop_req,
                 reducer_stop, rings, rdpc, next_line, shard, wpc,
                 counted_pause, item, locals, acc, global, dpc, finishing,
                 rot, bucket_start, snapshots, mpc, pop_started, pop_cleared,
                 rot_started, rot_cleared, input_ok, bucket_ok, stop_after,
                 processed, result, single, content, shard_of, emitted, bf,
                 bf_added, bf_h1, bf_h2, bf_pos, bf_op, bf_ops, cs, cs_true,
                 cs_col, cs_ovf, cs_ops, cs_op, hl, hl_hash, hl_op, hl_ops,
                 pd_in, pd_ret, pd_out, ts_base, ts_i, ts_j, ts_salt,
                 mn_argv, mn_pc, mn_g, mn_opt, mn_start, mn_cmd, mn_res,
                 mn_exit, ex, ex_op, ex_ub>>
\* data_[head] = value / T{std::forward<Args>(args)...}: the argument is
\* moved from
push_write ==
  /\ ppc = "write"
  /\ data_' = [data_ EXCEPT ![p_head] = p_line]
  /\ p_line' = 0
  /\ ppc' = "publish"
  /\ UNCHANGED <<head_, tail_, headCnt, tailCnt, p_head, p_next, p_obs,
                 p_seen, p_val, p_ret, cpc, c_tail, c_obs, c_seen, c_out,
                 c_ret, accepted, popped, cmd, has_jthread, bucket_mode,
                 done, merging, paused, workers_ended, stop_req,
                 reducer_stop, rings, rdpc, next_line, shard, wpc,
                 counted_pause, item, locals, acc, global, dpc, finishing,
                 rot, bucket_start, snapshots, mpc, pop_started, pop_cleared,
                 rot_started, rot_cleared, input_ok, bucket_ok, stop_after,
                 processed, result, single, content, shard_of, emitted, bf,
                 bf_added, bf_h1, bf_h2, bf_pos, bf_op, bf_ops, cs, cs_true,
                 cs_col, cs_ovf, cs_ops, cs_op, hl, hl_hash, hl_op, hl_ops,
                 pd_in, pd_ret, pd_out, ts_base, ts_i, ts_j, ts_salt,
                 mn_argv, mn_pc, mn_g, mn_opt, mn_start, mn_cmd, mn_res,
                 mn_exit, ex, ex_op, ex_ub>>
\* head_.store(next, release); return true
push_publish ==
  /\ ppc = "publish"
  /\ head_' = p_next
  /\ headCnt' = headCnt + 1
  /\ accepted' = Append(accepted, p_val)
  /\ p_ret' = "ok"
  /\ ppc' = "idle"
  /\ UNCHANGED <<tail_, data_, tailCnt, p_head, p_next, p_line, p_obs,
                 p_seen, p_val, cpc, c_tail, c_obs, c_seen, c_out, c_ret,
                 popped, cmd, has_jthread, bucket_mode, done, merging,
                 paused, workers_ended, stop_req, reducer_stop, rings, rdpc,
                 next_line, shard, wpc, counted_pause, item, locals, acc,
                 global, dpc, finishing, rot, bucket_start, snapshots, mpc,
                 pop_started, pop_cleared, rot_started, rot_cleared,
                 input_ok, bucket_ok, stop_after, processed, result, single,
                 content, shard_of, emitted, bf, bf_added, bf_h1, bf_h2,
                 bf_pos, bf_op, bf_ops, cs, cs_true, cs_col, cs_ovf, cs_ops,
                 cs_op, hl, hl_hash, hl_op, hl_ops, pd_in, pd_ret, pd_out,
                 ts_base, ts_i, ts_j, ts_salt, mn_argv, mn_pc, mn_g, mn_opt,
                 mn_start, mn_cmd, mn_res, mn_exit, ex, ex_op, ex_ub>>
\* pop: tail_.load(relaxed)
pop_load_tail ==
  /\ cpc = "idle"
  /\ Len(popped) < MaxPush
  /\ c_tail' = tail_
  /\ cpc' = "load_head"
  /\ UNCHANGED <<head_, tail_, data_, headCnt, tailCnt, ppc, p_head, p_next,
                 p_line, p_obs, p_seen, p_val, p_ret, c_obs, c_seen, c_out,
                 c_ret, accepted, popped, cmd, has_jthread, bucket_mode,
                 done, merging, paused, workers_ended, stop_req,
                 reducer_stop, rings, rdpc, next_line, shard, wpc,
                 counted_pause, item, locals, acc, global, dpc, finishing,
                 rot, bucket_start, snapshots, mpc, pop_started, pop_cleared,
                 rot_started, rot_cleared, input_ok, bucket_ok, stop_after,
                 processed, result, single, content, shard_of, emitted, bf,
                 bf_added, bf_h1, bf_h2, bf_pos, bf_op, bf_ops, cs, cs_true,
                 cs_col, cs_ovf, cs_ops, cs_op, hl, hl_hash, hl_op, hl_ops,
                 pd_in, pd_ret, pd_out, ts_base, ts_i, ts_j, ts_salt,
                 mn_argv, mn_pc, mn_g, mn_opt, mn_start, mn_cmd, mn_res,
                 mn_exit, ex, ex_op, ex_ub>>
\* pop_load_head without the empty test
pop_load_head_no_empty_test ==
  /\ cpc = "load_head"
  /\ \E h \in c_seen .. headCnt :
       /\ c_seen' = h
       /\ c_obs' = h % RingCap
       /\ cpc' = "move"
       /\ c_ret' = c_ret
  /\ UNCHANGED <<head_, tail_, data_, headCnt, tailCnt, ppc, p_head, p_next,
                 p_line, p_obs, p_seen, p_val, p_ret, c_tail, c_out,
                 accepted, popped, cmd, has_jthread, bucket_mode, done,
                 merging, paused, workers_ended, stop_req, reducer_stop,
                 rings, rdpc, next_line, shard, wpc, counted_pause, item,
                 locals, acc, global, dpc, finishing, rot, bucket_start,
                 snapshots, mpc, pop_started, pop_cleared, rot_started,
                 rot_cleared, input_ok, bucket_ok, stop_after, processed,
                 result, single, content, shard_of, emitted, bf, bf_added,
                 bf_h1, bf_h2, bf_pos, bf_op, bf_ops, cs, cs_true, cs_col,
                 cs_ovf, cs_ops, cs_op, hl, hl_hash, hl_op, hl_ops, pd_in,
                 pd_ret, pd_out, ts_base, ts_i, ts_j, ts_salt, mn_argv,
                 mn_pc, mn_g, mn_opt, mn_start, mn_cmd, mn_res, mn_exit, ex,
                 ex_op, ex_ub>>
\* head_.load(acquire); if (tail == head) return false
pop_load_head ==
  /\ cpc = "load_head"
  /\ \E h \in c_seen .. headCnt :
       /\ c_seen' = h
       /\ c_obs' = h % RingCap
       /\ IF c_tail = h % RingCap
            THEN /\ cpc' = "idle"
                 /\ c_ret' = "empty"
            ELSE /\ cpc' = "move"
                 /\ c_ret' = c_ret
  /\ UNCHANGED <<head_, tail_, data_, headCnt, tailCnt, ppc, p_head, p_next,
                 p_line, p_obs, p_seen, p_val, p_ret, c_tail, c_out,
                 accepted, popped, cmd, has_jthread, bucket_mode, done,
                 merging, paused, workers_ended, stop_req, reducer_stop,
                 rings, rdpc, next_line, shard, wpc, counted_pause, item,
                 locals, acc, global, dpc, finishing, rot, bucket_start,
                 snapshots, mpc, pop_started, pop_cleared, rot_started,
                 rot_cleared, input_ok, bucket_ok, stop_after, processed,
                 result, single, content, shard_of, emitted, bf, bf_added,
                 bf_h1, bf_h2, bf_pos, bf_op, bf_ops, cs, cs_true, cs_col,
                 cs_ovf, cs_ops, cs_op, hl, hl_hash, hl_op, hl_ops, pd_in,
                 pd_ret, pd_out, ts_base, ts_i, ts_j, ts_salt, mn_argv,
                 mn_pc, mn_g, mn_opt, mn_start, mn_cmd, mn_res, mn_exit, ex,
                 ex_op, ex_ub>>
\* out = std::move(data_[tail])
pop_move ==
  /\ cpc = "move"
  /\ c_out' = data_[c_tail]
  /\ data_' = [data_ EXCEPT ![c_tail] = 0]
  /\ cpc' = "publish"
  /\ UNCHANGED <<head_, tail_, headCnt, tailCnt, ppc, p_head, p_next, p_line,
                 p_obs, p_seen, p_val, p_ret, c_tail, c_obs, c_seen, c_ret,
                 accepted, popped, cmd, has_jthread, bucket_mode, done,
                 merging, paused, workers_ended, stop_req, reducer_stop,
                 rings, rdpc, next_line, shard, wpc, counted_pause, item,
                 locals, acc, global, dpc, finishing, rot, bucket_start,
                 snapshots, mpc, pop_started, pop_cleared, rot_started,
                 rot_cleared, input_ok, bucket_ok, stop_after, processed,
                 result, single, content, shard_of, emitted, bf, bf_added,
                 bf_h1, bf_h2, bf_pos, bf_op, bf_ops, cs, cs_true, cs_col,
                 cs_ovf, cs_ops, cs_op, hl, hl_hash, hl_op, hl_ops, pd_in,
                 pd_ret, pd_out, ts_base, ts_i, ts_j, ts_salt, mn_argv,
                 mn_pc, mn_g, mn_opt, mn_start, mn_cmd, mn_res, mn_exit, ex,
                 ex_op, ex_ub>>
\* tail_.store((tail + 1) % capacity_, release); return true
pop_publish ==
  /\ cpc = "publish"
  /\ tail_' = (c_tail + 1) % RingCap
  /\ tailCnt' = tailCnt + 1
  /\ popped' = Append(popped, c_out)
  /\ c_ret' = "ok"
  /\ cpc' = "idle"
  /\ UNCHANGED <<head_, data_, headCnt, ppc, p_head, p_next, p_line, p_obs,
                 p_seen, p_val, p_ret, c_tail, c_obs, c_seen, c_out,
                 accepted, cmd, has_jthread, bucket_mode, done, merging,
                 paused, workers_ended, stop_req, reducer_stop, rings, rdpc,
                 next_line, shard, wpc, counted_pause, item, locals, acc,
                 global, dpc, finishing, rot, bucket_start, snapshots, mpc,
                 pop_started, pop_cleared, rot_started, rot_cleared,
                 input_ok, bucket_ok, stop_after, processed, result, single,
                 content, shard_of, emitted, bf, bf_added, bf_h1, bf_h2,
                 bf_pos, bf_op, bf_ops, cs, cs_true, cs_col, cs_ovf, cs_ops,
                 cs_op, hl, hl_hash, hl_op, hl_ops, pd_in, pd_ret, pd_out,
                 ts_base, ts_i, ts_j, ts_salt, mn_argv, mn_pc, mn_g, mn_opt,
                 mn_start, mn_cmd, mn_res, mn_exit, ex, ex_op, ex_ub>>
\* no pipeline run
PipeNone ==
  /\ cmd = "none" /\ has_jthread = FALSE /\ bucket_mode = FALSE
  /\ done = FALSE /\ merging = FALSE /\ paused = 0 /\ workers_ended = FALSE
  /\ stop_req = [w \in Workers |-> FALSE] /\ reducer_stop = FALSE
  /\ rings = [w \in Workers |-> << >>]
  /\ rdpc = "exit" /\ next_line = 1 /\ shard = 0
  /\ wpc = [w \in Workers |-> "exit"]
  /\ counted_pause = [w \in Workers |-> FALSE]
  /\ item = [w \in Workers |-> 0]
  /\ locals = [w \in Workers |-> 0] /\ acc = 0 /\ global = 0
  /\ dpc = "none" /\ finishing = FALSE /\ rot = 0 /\ bucket_start = 0
  /\ snapshots = << >>
  /\ mpc = "returned"
  /\ pop_started = [l \in Lines |-> 0] /\ pop_cleared = [l \in Lines |-> 0]
  /\ rot_started = 0 /\ rot_cleared = 0
  /\ input_ok = TRUE /\ bucket_ok = TRUE /\ stop_after = 0 /\ processed = 0
  /\ result = "none" /\ single = FALSE
  /\ content = [l \in Lines |-> l] /\ shard_of = [k \in Lines |-> 0]
  /\ emitted = << >>

\* no bloom filter object under test
BloomNone ==
  /\ bf = << >> /\ bf_added = << >> /\ bf_h1 = << >> /\ bf_h2 = << >>
  /\ bf_pos = << >>
  /\ bf_op = [op |-> "none", a |-> 0, b |-> 0, arg |-> << >>, res |-> "none"]
  /\ bf_ops = 0

\* no count-min sketch object under test
CmsNone ==
  /\ cs = << >> /\ cs_true = << >> /\ cs_col = << >>
  /\ cs_ovf = FALSE /\ cs_ops = 0
  /\ cs_op = [op |-> "none", a |-> 0, b |-> 0, res |-> "none"]

\* no hll sketch object under test
HllNone ==
  /\ hl = << >> /\ hl_hash = << >>
  /\ hl_op = [op |-> "none", a |-> 0, b |-> 0, p |-> 0, h |-> g_hash, x |-> 0,
             res |-> "none"]
  /\ hl_ops = 0

\* no derive_thread_salt call under test
SaltNone == ts_base = Zero64 /\ ts_i = Zero64 /\ ts_j = Zero64 /\ ts_salt = << >>

\* no parse_duration call under test
DurNone == pd_in = << >> /\ pd_ret = "idle" /\ pd_out = Zero64

\* GlobalOptions g{}: the defaults of the fields kept
DefaultOptions == [json |-> FALSE, threads |-> 0]

\* no expected object is under test
ExpNone == ex = << >> /\ ex_op = [op |-> "none"] /\ ex_ub = FALSE

\* the executable is not run
MainNone ==
  /\ mn_argv = << >> /\ mn_pc = "idle" /\ mn_g = DefaultOptions
  /\ mn_opt = "none" /\ mn_start = 0 /\ mn_cmd = "none" /\ mn_res = -1
  /\ mn_exit = -1

RingInit == RingStart /\ PipeNone /\ BloomNone /\ CmsNone /\ HllNone /\ DurNone /\ SaltNone /\ MainNone /\ ExpNone

RingNext ==
  \/ push_load_head
  \/ push_load_tail
  \/ push_write
  \/ push_publish
  \/ pop_load_tail
  \/ pop_load_head
  \/ pop_move
  \/ pop_publish

RingSpec == RingInit /\ [][RingNext]_vars

\* the reader thread and the worker thread of one ring
RingProducer == push_load_head \/ push_load_tail \/ push_write \/ push_publish

RingConsumer == pop_load_tail \/ pop_load_head \/ pop_move \/ pop_publish

\* both threads keep running, and a store to tail_ (head_) becomes visible
\* to the acquire loads of the other thread in finite time
RingFairSpec ==
  /\ RingSpec
  /\ WF_vars(RingProducer) /\ WF_vars(RingConsumer)
  /\ SF_vars(push_load_tail /\ p_seen' = tailCnt)
  /\ SF_vars(pop_load_head /\ c_seen' = headCnt)

\* ------------------------------------------------------------ hash layer
U64OfNat(n) ==
  U64(n % 256, (n \div 256) % 256, (n \div 65536) % 256, (n \div 16777216) % 256,
      0, 0, 0, 0)

ByteAt(a, j) == IF j >= 1 /\ j <= 8 THEN a[j] ELSE 0

RECURSIVE xor_bits(_, _, _)
xor_bits(x, y, n) ==
  IF n = 0 THEN 0
  ELSE (((x % 2) + (y % 2)) % 2) + 2 * xor_bits(x \div 2, y \div 2, n - 1)

\* a ^ b
Xor64(a, b) ==
  U64(xor_bits(a[1], b[1], 8), xor_bits(a[2], b[2], 8), xor_bits(a[3], b[3], 8),
      xor_bits(a[4], b[4], 8), xor_bits(a[5], b[5], 8), xor_bits(a[6], b[6], 8),
      xor_bits(a[7], b[7], 8), xor_bits(a[8], b[8], 8))

ShrByte(a, j, k) ==
  LET q == k \div 8
      r == k % 8
  IN  (ByteAt(a, j + q) \div (2 ^ r)) + (ByteAt(a, j + q + 1) % (2 ^ r)) * (2 ^ (8 - r))

\* a >> k
Shr64(a, k) ==
  U64(ShrByte(a, 1, k), ShrByte(a, 2, k), ShrByte(a, 3, k), ShrByte(a, 4, k),
      ShrByte(a, 5, k), ShrByte(a, 6, k), ShrByte(a, 7, k), ShrByte(a, 8, k))

\* carry propagation over 8 byte columns, modulo 2^64
RECURSIVE carry_norm(_, _, _)
carry_norm(cols, j, carry) ==
  IF j > 8 THEN << >>
  ELSE LET t == cols[j] + carry
       IN  <<t % 256>> \o carry_norm(cols, j + 1, t \div 256)

\* a + b modulo 2^64
Add64(a, b) ==
  carry_norm(<<a[1] + b[1], a[2] + b[2], a[3] + b[3], a[4] + b[4],
               a[5] + b[5], a[6] + b[6], a[7] + b[7], a[8] + b[8]>>, 1, 0)

RECURSIVE mul_col(_, _, _, _)
mul_col(a, b, j, i) ==
  IF i > j THEN 0 ELSE a[i] * b[j - i + 1] + mul_col(a, b, j, i + 1)

\* a * b modulo 2^64
Mul64(a, b) ==
  carry_norm(<<mul_col(a, b, 1, 1), mul_col(a, b, 2, 1), mul_col(a, b, 3, 1),
               mul_col(a, b, 4, 1), mul_col(a, b, 5, 1), mul_col(a, b, 6, 1),
               mul_col(a, b, 7, 1), mul_col(a, b, 8, 1)>>, 1, 0)

\* 0x9E3779B97F4A7C15
kGolden == U64(21, 124, 74, 127, 185, 121, 55, 158)

\* 0xBF58476D1CE4E5B9
kMul1 == U64(185, 229, 228, 28, 109, 71, 88, 191)

\* 0x94D049BB133111EB
kMul2 == U64(235, 17, 49, 19, 187, 73, 208, 148)

kShift30 == 30

kShift27 == 27

kShift31 == 31

splitmix64(value) ==
  LET v1 == Add64(value, kGolden)
      v2 == Mul64(Xor64(v1, Shr64(v1, kShift30)), kMul1)
      v3 == Mul64(Xor64(v2, Shr64(v2, kShift27)), kMul2)
  IN  Xor64(v3, Shr64(v3, kShift31))

\* derive_thread_salt with the index multiplied by 2 * kGolden
derive_thread_salt_even(base, thread_index) ==
  splitmix64(Xor64(base, Mul64(thread_index, Mul64(U64OfNat(2), kGolden))))

derive_thread_salt(base, thread_index) ==
  splitmix64(Xor64(base, Mul64(thread_index, kGolden)))

\* ------------------------------------------------------------ bloom::filter
\* 0xFFFFFFFFFFFFFFFF
AllOnes64 == U64(255, 255, 255, 255, 255, 255, 255, 255)

\* sample values of hash64: the largest value and one with high and low bits
HashSamples == {AllOnes64, U64(3, 0, 0, 0, 0, 0, 0, 64)}

RECURSIVE mod_fold(_, _, _, _)
mod_fold(a, n, j, r) ==
  IF j = 0 THEN r ELSE mod_fold(a, n, j - 1, (r * 256 + a[j]) % n)

\* v % n for a 64-bit v and a small n
Mod64(a, n) == mod_fold(a, n, 8, 0)

\* v | 1ULL
Or1(a) == [a EXCEPT ![1] = IF a[1] % 2 = 0 THEN a[1] + 1 ELSE a[1]]

kDefaultK == 7

kMinBytes == 8

\* hash configs offered to the factories: HashConfig{} and one that differs
\* from it in kind, in seed, in thread_salt
HashCfgs ==
  {g_hash, [g_hash EXCEPT !.kind = "xxhash"],
   [g_hash EXCEPT !.seed = U64OfNat(1)],
   [g_hash EXCEPT !.thread_salt = derive_thread_salt(Zero64, U64OfNat(1))]}

\* a filter slot before its factory call, and after a failed one
NoFilter(st) ==
  [st |-> st, bits |-> {}, words |-> 0, m_bits |-> 0, k |-> 0, hash_cfg |-> g_hash]

\* round_up_bits_to_words
round_up_bits_to_words(bits) == (bits + 63) \div 64

\* filter::make_by_mem(bytes, h); bits_ is kept as its size in words and the
\* indices of its set bits
make_by_mem(bytes, h) ==
  IF bytes < kMinBytes THEN NoFilter("error")
  ELSE LET words == bytes \div 8
       IN  IF words = 0 THEN NoFilter("error")
           ELSE [st |-> "ok", bits |-> {}, words |-> words,
                 m_bits |-> words * 64, k |-> kDefaultK, hash_cfg |-> h]

\* doubles offered as p: 2^-e for e = 1, 7, 40, and 0.0, 1.0, -0.5, NaN
Pow2(e) == [cls |-> "pow2", e |-> e]
Special(c) == [cls |-> c, e |-> 0]

\* p > 0.0 (false for NaN)
gt_zero(p) == p.cls \in {"pow2", "one"}

\* p < 1.0 (false for NaN)
lt_one(p) == p.cls \in {"pow2", "zero", "neg"}

\* std::ceil(x * n / (kLn2 * kLn2)) for x = -log(p) = e * kLn2, that is
\* ceil(e * n / kLn2) with 1 / kLn2 = 1.442695...
ceil_bits(e, n) == ((e * n * 1442695) + 999999) \div 1000000

\* std::lround(std::max(1.0, std::min(32.0, k_real))) for k_real = e
clamp_k(e) == IF e < 1 THEN 1 ELSE IF e > 32 THEN 32 ELSE e

\* filter::make_by_fp(p, h, capacity_hint)
make_by_fp(p, h, capacity_hint) ==
  IF ~gt_zero(p) \/ ~lt_one(p) THEN NoFilter("error")
  ELSE LET m_bits == ceil_bits(p.e, capacity_hint)
           words == round_up_bits_to_words(m_bits)
       IN  [st |-> "ok", bits |-> {}, words |-> words, m_bits |-> words * 64,
            k |-> clamp_k(p.e), hash_cfg |-> h]

\* hash64(x, hash_cfg_) and hash64(x, cfg2) in a filter with hash config h:
\* the two sample tables, exchanged for a config other than HashConfig{}
h1_of(h, x) == IF h = g_hash THEN bf_h1[x] ELSE bf_h2[x]
h2_of(h, x) == IF h = g_hash THEN bf_h2[x] ELSE bf_h1[x]

\* mod_bit(h1 + i * h2) for i = 0 .. k-1, h2 = hash64(x, cfg2) | 1: the
\* positions add and might_contain both visit for x in filter f
bit_positions(f, x) ==
  {Mod64(Add64(h1_of(f.hash_cfg, x),
               Mul64(U64OfNat(i), Or1(h2_of(f.hash_cfg, x)))), f.m_bits) :
     i \in 0 .. (f.k - 1)}

\* filter::add on filter i: bits_[index_word(bit)] |= index_mask(bit) for
\* each position
filter_add(i, x) == [bf[i] EXCEPT !.bits = @ \cup bf_pos[i][x]]

\* filter::might_contain on filter i: false at the first position whose bit
\* is clear
filter_might_contain(i, x) == \A b \in bf_pos[i][x] : b \in bf[i].bits

\* the parameter test of filter::merge
filter_compatible(a, b) ==
  /\ a.m_bits = b.m_bits /\ a.k = b.k
  /\ a.hash_cfg.kind = b.hash_cfg.kind /\ a.hash_cfg.seed = b.hash_cfg.seed
  /\ a.hash_cfg.thread_salt = b.hash_cfg.thread_salt

\* filter_merge with the words combined by &= instead of |=
filter_merge_intersect(a, b) ==
  IF filter_compatible(a, b) THEN [a EXCEPT !.bits = @ \cap b.bits] ELSE a

\* filter_merge with the words assigned instead of combined
filter_merge_assign(a, b) ==
  IF filter_compatible(a, b) THEN [a EXCEPT !.bits = b.bits] ELSE a

\* filter::merge: rejected without effect unless compatible; bits_[i] |= other.bits_[i]
filter_merge(a, b) ==
  IF filter_compatible(a, b) THEN [a EXCEPT !.bits = @ \cup b.bits] ELSE a

\* the factory calls tried: <<"mem", bytes, h>> and <<"fp", p, capacity_hint, h>>
MemCalls ==
  {<<"mem", bytes, g_hash>> :
     bytes \in {0, 4, 8 * BloomWords, 8 * BloomWords + 4, 8 * (BloomWords + 1)}}
  \cup {<<"mem", 8 * BloomWords, h>> : h \in HashCfgs}

FpCalls ==
  {<<"fp", Pow2(1), 44 * BloomWords, g_hash>>,
   <<"fp", Pow2(7), 6 * BloomWords, g_hash>>,
   <<"fp", Pow2(40), BloomWords, g_hash>>,
   <<"fp", Pow2(1), 0, g_hash>>}
  \cup {<<"fp", Special(c), 44 * BloomWords, g_hash>> :
          c \in {"zero", "one", "neg", "nan"}}

\* the last operation, the filters it was applied to, the arguments of a
\* factory call, the result
BloomOp(op, a, b, arg, res) ==
  [op |-> op, a |-> a, b |-> b, arg |-> arg, res |-> res]

\* two filter slots not yet constructed
BloomStart ==
  /\ bf = [f \in Filters |-> NoFilter("none")]
  /\ bf_added = [f \in Filters |-> {}]
  /\ bf_h1 \in [Keys -> HashSamples]
  /\ bf_h2 \in [Keys -> HashSamples]
  /\ bf_pos = [f \in Filters |-> [x \in Keys |-> {}]]
  /\ bf_op = BloomOp("none", 0, 0, << >>, "none")
  /\ bf_ops = 0

BloomInit == RingStart /\ PipeNone /\ BloomStart /\ CmsNone /\ HllNone /\ DurNone /\ SaltNone /\ MainNone /\ ExpNone

\* both factory calls have returned and the process is still running
bloom_alive == bf_op.res # "crash" /\ \A f \in Filters : bf[f].st # "none"

\* bf[f] = make_by_mem(bytes, h); filter 1 is built as the tests build theirs
bloom_make_mem ==
  \E f \in Filters, c \in MemCalls :
    /\ f = 1 => c = <<"mem", 8 * BloomWords, g_hash>>
    /\ bf[f].st = "none"
    /\ LET r == make_by_mem(c[2], c[3])
       IN  /\ bf' = [bf EXCEPT ![f] = r]
           /\ bf_pos' = [bf_pos EXCEPT ![f] =
                           [x \in Keys |->
                              IF r.st = "ok" THEN bit_positions(r, x) ELSE {}]]
           /\ bf_op' = BloomOp("make_by_mem", f, 0, c,
                               IF r.st = "ok" THEN "ok" ELSE "InvalidArgument")
  /\ UNCHANGED <<head_, tail_, data_, headCnt, tailCnt, ppc, p_head, p_next,
                 p_line, p_obs, p_seen, p_val, p_ret, cpc, c_tail, c_obs,
                 c_seen, c_out, c_ret, accepted, popped, cmd, has_jthread,
                 bucket_mode, done, merging, paused, workers_ended, stop_req,
                 reducer_stop, rings, rdpc, next_line, shard, wpc,
                 counted_pause, item, locals, acc, global, dpc, finishing,
                 rot, bucket_start, snapshots, mpc, pop_started, pop_cleared,
                 rot_started, rot_cleared, input_ok, bucket_ok, stop_after,
                 processed, result, single, content, shard_of, emitted,
                 bf_added, bf_h1, bf_h2, bf_ops, cs, cs_true, cs_col, cs_ovf,
                 cs_ops, cs_op, hl, hl_hash, hl_op, hl_ops, pd_in, pd_ret,
                 pd_out, ts_base, ts_i, ts_j, ts_salt, mn_argv, mn_pc, mn_g,
                 mn_opt, mn_start, mn_cmd, mn_res, mn_exit, ex, ex_op, ex_ub>>
\* bf[2] = make_by_fp(p, h, capacity_hint)
bloom_make_fp ==
  \E c \in FpCalls :
    /\ bf[2].st = "none"
    /\ LET r == make_by_fp(c[2], c[4], c[3])
       IN  /\ bf' = [bf EXCEPT ![2] = r]
           /\ bf_pos' = [bf_pos EXCEPT ![2] =
                           [x \in Keys |->
                              IF r.st = "ok" /\ r.m_bits > 0
                                THEN bit_positions(r, x) ELSE {}]]
           /\ bf_op' = BloomOp("make_by_fp", 2, 0, c,
                               IF r.st = "ok" THEN "ok" ELSE "InvalidArgument")
  /\ UNCHANGED <<head_, tail_, data_, headCnt, tailCnt, ppc, p_head, p_next,
                 p_line, p_obs, p_seen, p_val, p_ret, cpc, c_tail, c_obs,
                 c_seen, c_out, c_ret, accepted, popped, cmd, has_jthread,
                 bucket_mode, done, merging, paused, workers_ended, stop_req,
                 reducer_stop, rings, rdpc, next_line, shard, wpc,
                 counted_pause, item, locals, acc, global, dpc, finishing,
                 rot, bucket_start, snapshots, mpc, pop_started, pop_cleared,
                 rot_started, rot_cleared, input_ok, bucket_ok, stop_after,
                 processed, result, single, content, shard_of, emitted,
                 bf_added, bf_h1, bf_h2, bf_ops, cs, cs_true, cs_col, cs_ovf,
                 cs_ops, cs_op, hl, hl_hash, hl_op, hl_ops, pd_in, pd_ret,
                 pd_out, ts_base, ts_i, ts_j, ts_salt, mn_argv, mn_pc, mn_g,
                 mn_opt, mn_start, mn_cmd, mn_res, mn_exit, ex, ex_op, ex_ub>>
\* f.add(x); with m_bits_ = 0 mod_bit divides by zero: the process is killed,
\* or the division yields a value and the store lands outside bits_
bloom_add ==
  \E f \in Filters, x \in Keys :
    /\ bloom_alive /\ bf_ops < BloomMaxOps /\ bf_ops' = bf_ops + 1
    /\ bf[f].st = "ok"
    /\ IF bf[f].m_bits = 0
         THEN /\ \E r \in {"crash", "ok"} : bf_op' = BloomOp("add", f, 0, << >>, r)
              /\ UNCHANGED <<bf, bf_added>>
         ELSE /\ bf' = [bf EXCEPT ![f] = filter_add(f, x)]
              /\ bf_added' = [bf_added EXCEPT ![f] = @ \cup {<<x, "add">>}]
              /\ bf_op' = BloomOp("add", f, 0, << >>, "ok")
  /\ UNCHANGED <<head_, tail_, data_, headCnt, tailCnt, ppc, p_head, p_next,
                 p_line, p_obs, p_seen, p_val, p_ret, cpc, c_tail, c_obs,
                 c_seen, c_out, c_ret, accepted, popped, cmd, has_jthread,
                 bucket_mode, done, merging, paused, workers_ended, stop_req,
                 reducer_stop, rings, rdpc, next_line, shard, wpc,
                 counted_pause, item, locals, acc, global, dpc, finishing,
                 rot, bucket_start, snapshots, mpc, pop_started, pop_cleared,
                 rot_started, rot_cleared, input_ok, bucket_ok, stop_after,
                 processed, result, single, content, shard_of, emitted,
                 bf_h1, bf_h2, bf_pos, cs, cs_true, cs_col, cs_ovf, cs_ops,
                 cs_op, hl, hl_hash, hl_op, hl_ops, pd_in, pd_ret, pd_out,
                 ts_base, ts_i, ts_j, ts_salt, mn_argv, mn_pc, mn_g, mn_opt,
                 mn_start, mn_cmd, mn_res, mn_exit, ex, ex_op, ex_ub>>
\* f.might_contain(x); with m_bits_ = 0 mod_bit divides by zero: the process
\* is killed, or a word outside bits_ is read and decides the answer
bloom_might_contain ==
  \E f \in Filters, x \in Keys :
    /\ bloom_alive /\ bf_ops < BloomMaxOps /\ bf_ops' = bf_ops + 1
    /\ bf[f].st = "ok"
    /\ IF bf[f].m_bits = 0
         THEN \E r \in {"crash", "true", "false"} :
                bf_op' = BloomOp("might_contain", f, 0, << >>, r)
         ELSE bf_op' = BloomOp("might_contain", f, 0, << >>,
                               IF filter_might_contain(f, x) THEN "true" ELSE "false")
  /\ UNCHANGED <<head_, tail_, data_, headCnt, tailCnt, ppc, p_head, p_next,
                 p_line, p_obs, p_seen, p_val, p_ret, cpc, c_tail, c_obs,
                 c_seen, c_out, c_ret, accepted, popped, cmd, has_jthread,
                 bucket_mode, done, merging, paused, workers_ended, stop_req,
                 reducer_stop, rings, rdpc, next_line, shard, wpc,
                 counted_pause, item, locals, acc, global, dpc, finishing,
                 rot, bucket_start, snapshots, mpc, pop_started, pop_cleared,
                 rot_started, rot_cleared, input_ok, bucket_ok, stop_after,
                 processed, result, single, content, shard_of, emitted, bf,
                 bf_added, bf_h1, bf_h2, bf_pos, cs, cs_true, cs_col, cs_ovf,
                 cs_ops, cs_op, hl, hl_hash, hl_op, hl_ops, pd_in, pd_ret,
                 pd_out, ts_base, ts_i, ts_j, ts_salt, mn_argv, mn_pc, mn_g,
                 mn_opt, mn_start, mn_cmd, mn_res, mn_exit, ex, ex_op, ex_ub>>
\* f.merge(g)
bloom_merge ==
  \E f \in Filters, g \in Filters :
    /\ bloom_alive /\ bf_ops < BloomMaxOps /\ bf_ops' = bf_ops + 1
    /\ f # g /\ bf[f].st = "ok" /\ bf[g].st = "ok"
    /\ bf' = [bf EXCEPT ![f] = filter_merge(@, bf[g])]
    /\ bf_added' = [bf_added EXCEPT ![f] =
                      IF filter_compatible(bf[f], bf[g])
                        THEN @ \cup {<<e[1], "merge">> : e \in bf_added[g]}
                        ELSE @]
    /\ bf_op' = BloomOp("merge", f, g, << >>,
                        IF filter_compatible(bf[f], bf[g])
                          THEN "ok" ELSE "InvalidArgument")
  /\ UNCHANGED <<head_, tail_, data_, headCnt, tailCnt, ppc, p_head, p_next,
                 p_line, p_obs, p_seen, p_val, p_ret, cpc, c_tail, c_obs,
                 c_seen, c_out, c_ret, accepted, popped, cmd, has_jthread,
                 bucket_mode, done, merging, paused, workers_ended, stop_req,
                 reducer_stop, rings, rdpc, next_line, shard, wpc,
                 counted_pause, item, locals, acc, global, dpc, finishing,
                 rot, bucket_start, snapshots, mpc, pop_started, pop_cleared,
                 rot_started, rot_cleared, input_ok, bucket_ok, stop_after,
                 processed, result, single, content, shard_of, emitted,
                 bf_h1, bf_h2, bf_pos, cs, cs_true, cs_col, cs_ovf, cs_ops,
                 cs_op, hl, hl_hash, hl_op, hl_ops, pd_in, pd_ret, pd_out,
                 ts_base, ts_i, ts_j, ts_salt, mn_argv, mn_pc, mn_g, mn_opt,
                 mn_start, mn_cmd, mn_res, mn_exit, ex, ex_op, ex_ub>>
BloomNext ==
  \/ bloom_make_mem
  \/ bloom_make_fp
  \/ bloom_add
  \/ bloom_might_contain
  \/ bloom_merge

BloomSpec == BloomInit /\ [][BloomNext]_vars

\* ---------------------------------------------------------------- sketches
\* A sketch is its hash config and the set of lines whose add/inc has been
\* applied to its registers/cells; p (hll) and depth/width (cms) are the run's
\* single option value in every sketch of a run.
make_sketch(h) == [hash_cfg |-> h, items |-> {}]

same_params(a, b) ==
  /\ a.hash_cfg.kind = b.hash_cfg.kind
  /\ a.hash_cfg.seed = b.hash_cfg.seed
  /\ a.hash_cfg.thread_salt = b.hash_cfg.thread_salt

\* a.merge(b): rejected without effect unless same_params
merge(a, b) ==
  IF same_params(a, b) THEN [a EXCEPT !.items = a.items \cup b.items] ELSE a

RECURSIVE merge_all(_, _, _)
\* for (auto& tl : locals) (void)a.merge(tl);
merge_all(a, ls, w) ==
  IF w > NumWorkers THEN a ELSE merge_all(merge(a, ls[w]), ls, w + 1)

\* local_hash with the per-worker thread salt applied to hll sketches too
local_hash_always_salted(c, w) ==
  [g_hash EXCEPT !.thread_salt = derive_thread_salt(g_hash.seed, U64OfNat(w))]

\* hash config of worker w's sketch (worker index w-1, thread_index w)
local_hash(c, w) ==
  IF c = "hll" THEN g_hash
  ELSE [g_hash EXCEPT !.thread_salt = derive_thread_salt(g_hash.seed, U64OfNat(w))]

\* possible results of f.might_contain(line l) for a filter whose add has
\* been applied to the lines f.items: true when an equal line was added (all
\* its k bits are set), otherwise decided by whether the bits of the other
\* added lines cover the k bits of l
might_contain(f, l) ==
  IF \E a \in f.items : content[a] = content[l] THEN {TRUE}
  ELSE IF f.items # {} THEN BOOLEAN
  ELSE {FALSE}

\* -------------------------------------------------------------- cms::sketch
Sketches == 1 .. 2
Rows == 0 .. (CmsDepth - 1)

RECURSIVE less_from(_, _, _)
less_from(a, b, j) ==
  IF j = 0 THEN FALSE
  ELSE IF a[j] # b[j] THEN a[j] < b[j]
  ELSE less_from(a, b, j - 1)

\* a < b as unsigned 64-bit values
Less64(a, b) == less_from(a, b, 8)

\* std::min(a, b)
Min64(a, b) == IF Less64(b, a) THEN b ELSE a

\* a + b does not fit in 64 bits
Wraps64(a, b) == Less64(Add64(a, b), a)

\* counts passed to inc: the default 1 and the largest uint64_t
IncSamples == {U64OfNat(1), AllOnes64}

\* sketch::make_by_eps_delta with dimensions d x w
make_by_eps_delta(d, w, h) ==
  [table |-> [i \in 0 .. (d * w - 1) |-> Zero64], depth |-> d, width |-> w,
   hash_cfg |-> h]

\* cms::sketch::same_params
cms_same_params(a, b) ==
  a.depth = b.depth /\ a.width = b.width /\ same_params(a, b)

\* hash_row(x, hash_cfg_, r) % width_ in sketch s: the sample table for the
\* dimensions and hash config of sketch 1, and for other parameters the
\* column the table gives for the next row
col_of(s, x, r) ==
  IF cms_same_params(cs[s], cs[1]) THEN cs_col[x][r]
  ELSE cs_col[x][(r + 1) % CmsDepth]

\* idx = r * width_ + col of element x in row r
cell_of(s, x, r) == (r * cs[s].width) + col_of(s, x, r)

\* sketch::inc: table_[idx] += c in every row
cms_inc(s, x, c) ==
  [cs[s] EXCEPT !.table =
     [i \in DOMAIN @ |->
        IF \E r \in 0 .. (cs[s].depth - 1) : cell_of(s, x, r) = i
          THEN Add64(@[i], c) ELSE @[i]]]

RECURSIVE est_rows(_, _, _, _)
est_rows(s, x, r, est) ==
  IF r >= cs[s].depth THEN est
  ELSE est_rows(s, x, r + 1, Min64(est, cs[s].table[cell_of(s, x, r)]))

\* sketch::estimate: the minimum over the rows, starting from UINT64_MAX;
\* if (est == UINT64_MAX) est = 0
cms_estimate(s, x) ==
  LET est == est_rows(s, x, 0, AllOnes64)
  IN  IF est = AllOnes64 THEN Zero64 ELSE est

\* cms_merge with table_[i] = other.table_[i] in place of +=
cms_merge_assign(a, b) ==
  IF cms_same_params(a, b) THEN [a EXCEPT !.table = b.table] ELSE a

\* sketch::merge: rejected without effect unless same_params;
\* table_[i] += other.table_[i]
cms_merge(a, b) ==
  IF cms_same_params(a, b)
    THEN [a EXCEPT !.table = [i \in DOMAIN @ |-> Add64(@[i], b.table[i])]]
    ELSE a

\* the second sketch: like the first, or with one more row, one more column,
\* another hash kind, seed or thread salt
CmsVariants ==
  {make_by_eps_delta(CmsDepth + 1, CmsWidth, g_hash),
   make_by_eps_delta(CmsDepth, CmsWidth + 1, g_hash)}
  \cup {make_by_eps_delta(CmsDepth, CmsWidth, h) : h \in HashCfgs}

\* two fresh sketches
CmsStart ==
  /\ \E v \in CmsVariants :
       cs = [s \in Sketches |->
               IF s = 1 THEN make_by_eps_delta(CmsDepth, CmsWidth, g_hash) ELSE v]
  /\ cs_true = [s \in Sketches |-> [x \in Keys |-> Zero64]]
  /\ cs_col \in [Keys -> [Rows -> 0 .. (CmsWidth - 1)]]
  /\ cs_ovf = FALSE /\ cs_ops = 0
  /\ cs_op = [op |-> "none", a |-> 0, b |-> 0, res |-> "none"]

CmsInit == RingStart /\ PipeNone /\ BloomNone /\ CmsStart /\ HllNone /\ DurNone /\ SaltNone /\ MainNone /\ ExpNone

\* s.inc(x, c)
cms_op_inc ==
  /\ cs_ops < CmsMaxOps
  /\ \E s \in Sketches, x \in Keys, c \in IncSamples :
       /\ cs' = [cs EXCEPT ![s] = cms_inc(s, x, c)]
       /\ cs_true' = [cs_true EXCEPT ![s][x] = Add64(@, c)]
       /\ cs_ovf' = (cs_ovf \/ \E r \in 0 .. (cs[s].depth - 1) :
                                 Wraps64(cs[s].table[cell_of(s, x, r)], c))
       /\ cs_op' = [op |-> "inc", a |-> s, b |-> 0, res |-> "ok"]
  /\ cs_ops' = cs_ops + 1
  /\ UNCHANGED <<head_, tail_, data_, headCnt, tailCnt, ppc, p_head, p_next,
                 p_line, p_obs, p_seen, p_val, p_ret, cpc, c_tail, c_obs,
                 c_seen, c_out, c_ret, accepted, popped, cmd, has_jthread,
                 bucket_mode, done, merging, paused, workers_ended, stop_req,
                 reducer_stop, rings, rdpc, next_line, shard, wpc,
                 counted_pause, item, locals, acc, global, dpc, finishing,
                 rot, bucket_start, snapshots, mpc, pop_started, pop_cleared,
                 rot_started, rot_cleared, input_ok, bucket_ok, stop_after,
                 processed, result, single, content, shard_of, emitted, bf,
                 bf_added, bf_h1, bf_h2, bf_pos, bf_op, bf_ops, cs_col, hl,
                 hl_hash, hl_op, hl_ops, pd_in, pd_ret, pd_out, ts_base,
                 ts_i, ts_j, ts_salt, mn_argv, mn_pc, mn_g, mn_opt, mn_start,
                 mn_cmd, mn_res, mn_exit, ex, ex_op, ex_ub>>
\* s.merge(t)
cms_op_merge ==
  /\ cs_ops < CmsMaxOps
  /\ \E s \in Sketches, t \in Sketches :
       /\ s # t
       /\ cs' = [cs EXCEPT ![s] = cms_merge(@, cs[t])]
       /\ cs_true' = [cs_true EXCEPT ![s] =
                        IF cms_same_params(cs[s], cs[t])
                          THEN [x \in Keys |-> Add64(@[x], cs_true[t][x])]
                          ELSE @]
       /\ cs_ovf' = (cs_ovf \/ (cms_same_params(cs[s], cs[t]) /\
                       \E i \in DOMAIN cs[s].table :
                         Wraps64(cs[s].table[i], cs[t].table[i])))
       /\ cs_op' = [op |-> "merge", a |-> s, b |-> t,
                    res |-> IF cms_same_params(cs[s], cs[t])
                              THEN "ok" ELSE "InvalidArgument"]
  /\ cs_ops' = cs_ops + 1
  /\ UNCHANGED <<head_, tail_, data_, headCnt, tailCnt, ppc, p_head, p_next,
                 p_line, p_obs, p_seen, p_val, p_ret, cpc, c_tail, c_obs,
                 c_seen, c_out, c_ret, accepted, popped, cmd, has_jthread,
                 bucket_mode, done, merging, paused, workers_ended, stop_req,
                 reducer_stop, rings, rdpc, next_line, shard, wpc,
                 counted_pause, item, locals, acc, global, dpc, finishing,
                 rot, bucket_start, snapshots, mpc, pop_started, pop_cleared,
                 rot_started, rot_cleared, input_ok, bucket_ok, stop_after,
                 processed, result, single, content, shard_of, emitted, bf,
                 bf_added, bf_h1, bf_h2, bf_pos, bf_op, bf_ops, cs_col, hl,
                 hl_hash, hl_op, hl_ops, pd_in, pd_ret, pd_out, ts_base,
                 ts_i, ts_j, ts_salt, mn_argv, mn_pc, mn_g, mn_opt, mn_start,
                 mn_cmd, mn_res, mn_exit, ex, ex_op, ex_ub>>
CmsNext == cms_op_inc \/ cms_op_merge

CmsSpec == CmsInit /\ [][CmsNext]_vars

\* -------------------------------------------------------------- hll::sketch
\* precisions offered to make_by_precision (a std::uint8_t)
PSamples == {0, 3, 4, 20, 21, 255}

\* 2^59 + 2^40: register 0 with rank 1 at p = 4, register 2^15 with rank 4
\* at p = 20
MidBits64 == U64(0, 0, 0, 0, 0, 1, 0, 8)

\* sample values of hash64 for hll: all bits set (rank 1), zero (largest rank),
\* 1 (same register as zero, next largest rank) and one with bits on both
\* sides of the index boundary
HllHashSamples == {AllOnes64, Zero64, U64OfNat(1), MidBits64}

\* bit j of a 64-bit value, j = 0 the least significant
BitAt(a, j) == (a[(j \div 8) + 1] \div (2 ^ (j % 8))) % 2

\* the 64 bits of v
bits_of(a) == [j \in 0 .. 63 |-> BitAt(a, j)]

\* v << n on bits
shl_bits(b, n) == [j \in 0 .. 63 |-> IF j >= n THEN b[j - n] ELSE 0]

\* v | (1ULL << n) on bits
or_bit(b, n) == [j \in 0 .. 63 |-> IF j = n THEN 1 ELSE b[j]]

RECURSIVE lz_from(_, _)
lz_from(b, j) == IF j < 0 THEN 0 ELSE IF b[j] = 1 THEN 0 ELSE 1 + lz_from(b, j - 1)

\* leading_zeroes_64: 64 for zero, otherwise the count of zero bits above the
\* highest set bit
leading_zeroes_64(b) == IF \A j \in 0 .. 63 : b[j] = 0 THEN 64 ELSE lz_from(b, 63)

\* rho_from_hash(h, p): lz((h << p) | (1ULL << (p - 1))) + 1, at most 64 - p + 1
rho_from_hash(h, p) ==
  LET lz == leading_zeroes_64(or_bit(shl_bits(bits_of(h), p), p - 1))
      rank == lz + 1
      max_rho == 64 - p + 1
  IN  IF rank > max_rho THEN max_rho ELSE rank

RECURSIVE top_bits(_, _, _)
top_bits(h, p, j) ==
  IF j >= p THEN 0 ELSE BitAt(h, 64 - p + j) * (2 ^ j) + top_bits(h, p, j + 1)

\* hll_index taking the low p bits of h: h & (mval - 1)
hll_index_low_bits(h, p) == (h[1] + 256 * h[2] + 65536 * h[3]) % (2 ^ p)

\* (h >> (64 - p_)) & (mval - 1)
hll_index(h, p) == top_bits(h, p, 0) % (2 ^ p)

\* idx and r of sketch::add for each sample hash and each valid precision
hll_cell ==
  [h \in HllHashSamples |->
     [p \in 4 .. 20 |-> [idx |-> hll_index(h, p), r |-> rho_from_hash(h, p)]]]

\* registers_[i]; registers_ is kept as its size m and its non-zero entries
reg(s, i) == IF i \in DOMAIN s.registers THEN s.registers[i] ELSE 0

\* std::max on std::uint8_t
max_u8(a, b) == IF a < b THEN b ELSE a

\* make_by_precision that drops h and keeps HashConfig{}
make_by_precision_default_cfg(p, h) ==
  IF p < 4 \/ p > 20
    THEN [st |-> "error", err |-> "InvalidArgument"]
    ELSE [st |-> "ok", p |-> p, hash_cfg |-> g_hash, m |-> 2 ^ p,
          registers |-> << >>]

\* sketch::make_by_precision(p, h)
make_by_precision(p, h) ==
  IF p < 4 \/ p > 20
    THEN [st |-> "error", err |-> "InvalidArgument"]
    ELSE [st |-> "ok", p |-> p, hash_cfg |-> h, m |-> 2 ^ p, registers |-> << >>]

\* sketch::add with cell = r in place of cell = std::max(r, cell)
hll_add_overwrite(s, h) ==
  LET idx == hll_cell[h][s.p].idx
      r == hll_cell[h][s.p].r
  IN  [s EXCEPT !.registers =
         [i \in (DOMAIN @) \cup {idx} |-> IF i = idx THEN r ELSE @[i]]]

\* sketch::add, h = hash64(x, hash_cfg_): cell = std::max(r, cell)
hll_add(s, h) ==
  LET idx == hll_cell[h][s.p].idx
      r == hll_cell[h][s.p].r
  IN  [s EXCEPT !.registers =
         [i \in (DOMAIN @) \cup {idx} |->
            IF i = idx THEN max_u8(r, reg(s, idx)) ELSE @[i]]]

\* hll::sketch::same_params
hll_same_params(a, b) == a.p = b.p /\ same_params(a, b)

\* sketch::merge with the parameter test reduced to the precision
hll_merge_ok_p_only(a, b) == a.p = b.p

\* sketch::merge succeeds exactly when same_params
hll_merge_ok(a, b) == hll_same_params(a, b)

\* sketch::merge with the receiver's register replaced by the argument's
hll_merge_assign(a, b) ==
  IF hll_merge_ok(a, b) THEN [a EXCEPT !.registers = b.registers] ELSE a

\* sketch::merge: registers_[i] = std::max(other.registers_[i], registers_[i])
hll_merge(a, b) ==
  IF hll_merge_ok(a, b)
    THEN [a EXCEPT !.registers =
            [i \in (DOMAIN @) \cup (DOMAIN b.registers) |->
               max_u8(reg(b, i), reg(a, i))]]
    ELSE a

\* no sketch constructed yet, no element hashed yet
HllStart ==
  /\ hl = [s \in Sketches |-> [st |-> "none"]]
  /\ hl_hash = << >>
  /\ hl_op = [op |-> "none", a |-> 0, b |-> 0, p |-> 0, h |-> g_hash, x |-> 0,
             res |-> "none"]
  /\ hl_ops = 0

HllInit == RingStart /\ PipeNone /\ BloomNone /\ CmsNone /\ HllStart /\ DurNone /\ SaltNone /\ MainNone /\ ExpNone

\* hl[s] = make_by_precision(p, h)
hll_op_make ==
  \E s \in Sketches, p \in PSamples, h \in HashCfgs :
    /\ hl[s].st = "none"
    /\ hl' = [hl EXCEPT ![s] = make_by_precision(p, h)]
    /\ hl_op' = [op |-> "make", a |-> s, b |-> 0, p |-> p, h |-> h, x |-> 0,
                 res |-> IF make_by_precision(p, h).st = "ok"
                           THEN "ok" ELSE "InvalidArgument"]
  /\ UNCHANGED <<head_, tail_, data_, headCnt, tailCnt, ppc, p_head, p_next,
                 p_line, p_obs, p_seen, p_val, p_ret, cpc, c_tail, c_obs,
                 c_seen, c_out, c_ret, accepted, popped, cmd, has_jthread,
                 bucket_mode, done, merging, paused, workers_ended, stop_req,
                 reducer_stop, rings, rdpc, next_line, shard, wpc,
                 counted_pause, item, locals, acc, global, dpc, finishing,
                 rot, bucket_start, snapshots, mpc, pop_started, pop_cleared,
                 rot_started, rot_cleared, input_ok, bucket_ok, stop_after,
                 processed, result, single, content, shard_of, emitted, bf,
                 bf_added, bf_h1, bf_h2, bf_pos, bf_op, bf_ops, cs, cs_true,
                 cs_col, cs_ovf, cs_ops, cs_op, hl_hash, hl_ops, pd_in,
                 pd_ret, pd_out, ts_base, ts_i, ts_j, ts_salt, mn_argv,
                 mn_pc, mn_g, mn_opt, mn_start, mn_cmd, mn_res, mn_exit, ex,
                 ex_op, ex_ub>>
\* hl[s].add(x); hash64(x, hash_cfg_) is fixed the first time it is computed
hll_op_add ==
  /\ hl_ops < HllMaxOps
  /\ \E s \in Sketches, x \in Keys, h \in HllHashSamples :
       /\ hl[s].st = "ok"
       /\ LET key == <<hl[s].hash_cfg, x>>
          IN  /\ key \in DOMAIN hl_hash => h = hl_hash[key]
              /\ hl_hash' = [k \in (DOMAIN hl_hash) \cup {key} |->
                               IF k = key THEN h ELSE hl_hash[k]]
       /\ hl' = [hl EXCEPT ![s] = hll_add(@, h)]
       /\ hl_op' = [op |-> "add", a |-> s, b |-> 0, p |-> 0, h |-> g_hash, x |-> x,
                    res |-> "ok"]
  /\ hl_ops' = hl_ops + 1
  /\ UNCHANGED <<head_, tail_, data_, headCnt, tailCnt, ppc, p_head, p_next,
                 p_line, p_obs, p_seen, p_val, p_ret, cpc, c_tail, c_obs,
                 c_seen, c_out, c_ret, accepted, popped, cmd, has_jthread,
                 bucket_mode, done, merging, paused, workers_ended, stop_req,
                 reducer_stop, rings, rdpc, next_line, shard, wpc,
                 counted_pause, item, locals, acc, global, dpc, finishing,
                 rot, bucket_start, snapshots, mpc, pop_started, pop_cleared,
                 rot_started, rot_cleared, input_ok, bucket_ok, stop_after,
                 processed, result, single, content, shard_of, emitted, bf,
                 bf_added, bf_h1, bf_h2, bf_pos, bf_op, bf_ops, cs, cs_true,
                 cs_col, cs_ovf, cs_ops, cs_op, pd_in, pd_ret, pd_out,
                 ts_base, ts_i, ts_j, ts_salt, mn_argv, mn_pc, mn_g, mn_opt,
                 mn_start, mn_cmd, mn_res, mn_exit, ex, ex_op, ex_ub>>
\* hl[s].merge(hl[t])
hll_op_merge ==
  /\ hl_ops < HllMaxOps
  /\ \E s \in Sketches, t \in Sketches :
       /\ s # t /\ hl[s].st = "ok" /\ hl[t].st = "ok"
       /\ hl' = [hl EXCEPT ![s] = hll_merge(@, hl[t])]
       /\ hl_op' = [op |-> "merge", a |-> s, b |-> t, p |-> 0, h |-> g_hash, x |-> 0,
                    res |-> IF hll_merge_ok(hl[s], hl[t])
                              THEN "ok" ELSE "InvalidArgument"]
  /\ hl_ops' = hl_ops + 1
  /\ UNCHANGED <<head_, tail_, data_, headCnt, tailCnt, ppc, p_head, p_next,
                 p_line, p_obs, p_seen, p_val, p_ret, cpc, c_tail, c_obs,
                 c_seen, c_out, c_ret, accepted, popped, cmd, has_jthread,
                 bucket_mode, done, merging, paused, workers_ended, stop_req,
                 reducer_stop, rings, rdpc, next_line, shard, wpc,
                 counted_pause, item, locals, acc, global, dpc, finishing,
                 rot, bucket_start, snapshots, mpc, pop_started, pop_cleared,
                 rot_started, rot_cleared, input_ok, bucket_ok, stop_after,
                 processed, result, single, content, shard_of, emitted, bf,
                 bf_added, bf_h1, bf_h2, bf_pos, bf_op, bf_ops, cs, cs_true,
                 cs_col, cs_ovf, cs_ops, cs_op, hl_hash, pd_in, pd_ret,
                 pd_out, ts_base, ts_i, ts_j, ts_salt, mn_argv, mn_pc, mn_g,
                 mn_opt, mn_start, mn_cmd, mn_res, mn_exit, ex, ex_op, ex_ub>>
HllNext == hll_op_make \/ hll_op_add \/ hll_op_merge

HllSpec == HllInit /\ [][HllNext]_vars

\* ------------------------------------------------- timeutil::parse_duration
\* value of a decimal digit character
DigitVal ==
  [c \in {"0", "1", "2", "3", "4", "5", "6", "7", "8", "9"} |->
     CASE c = "0" -> 0 [] c = "1" -> 1 [] c = "2" -> 2 [] c = "3" -> 3
       [] c = "4" -> 4 [] c = "5" -> 5 [] c = "6" -> 6 [] c = "7" -> 7
       [] c = "8" -> 8 [] c = "9" -> 9]

\* ch >= '0' && ch <= '9'
IsDigit(c) == c \in DOMAIN DigitVal

\* v / 10 for a 64-bit v: long division over the bytes, most significant first
RECURSIVE div10_from(_, _, _)
div10_from(a, j, r) ==
  IF j = 0 THEN << >>
  ELSE LET t == r * 256 + a[j]
       IN  div10_from(a, j - 1, t % 10) \o <<t \div 10>>

Div10(a) == div10_from(a, 8, 0)

\* a - b modulo 2^64
Sub64(a, b) ==
  Add64(a, Add64(Xor64(b, AllOnes64), U64OfNat(1)))

\* the digit loop of parse_duration from index i (1-based) with the value
\* read so far: where it stopped, the value, and whether it hit the overflow
\* return
RECURSIVE digit_loop(_, _, _)
digit_loop(s, i, value) ==
  IF i > Len(s) \/ ~IsDigit(s[i]) THEN [i |-> i, value |-> value, ovf |-> FALSE]
  ELSE LET digit == U64OfNat(DigitVal[s[i]])
           limit == Div10(Sub64(AllOnes64, digit))
       IN  IF Less64(limit, value) THEN [i |-> i, value |-> value, ovf |-> TRUE]
           ELSE digit_loop(s, i + 1, Add64(Mul64(value, U64OfNat(10)), digit))

\* nanoseconds per unit: the period ratios of std::chrono::milliseconds,
\* seconds, minutes and hours to nanoseconds
UnitNs ==
  [u \in {<<"m", "s">>, <<"s">>, <<"m">>, <<"h">>} |->
     CASE u = <<"m", "s">> -> U64OfNat(1000000)
       [] u = <<"s">> -> U64OfNat(1000000000)
       [] u = <<"m">> -> Mul64(U64OfNat(60), U64OfNat(1000000000))
       [] u = <<"h">> -> Mul64(U64OfNat(3600), U64OfNat(1000000000))]

\* numbers of 16 bytes, least significant first, for exact products
Wide(a) == a \o <<0, 0, 0, 0, 0, 0, 0, 0>>

RECURSIVE wide_norm(_, _, _)
wide_norm(cols, j, carry) ==
  IF j > 16 THEN << >>
  ELSE LET t == cols[j] + carry
       IN  <<t % 256>> \o wide_norm(cols, j + 1, t \div 256)

\* a * b for 16-byte a, b whose product fits 16 bytes
WideMul(a, b) == wide_norm([j \in 1 .. 16 |-> mul_col(a, b, j, 1)], 1, 0)

\* a 16-byte number is at most 2^63 - 1
FitsInt64(w) == w[8] < 128 /\ \A j \in 9 .. 16 : w[j] = 0

\* a 16-byte number is at most 2^63
FitsNegInt64(w) ==
  \/ FitsInt64(w)
  \/ w[8] = 128 /\ \A j \in 1 .. 16 : j # 8 => w[j] = 0

\* out = std::chrono::<unit>(value): value becomes the signed 64-bit count r,
\* and the conversion to nanoseconds multiplies r by the period ratio in signed
\* 64-bit arithmetic. The product fits: it is the result. It does not fit:
\* signed overflow, the product wraps or the call traps.
to_nanoseconds(value, ratio) ==
  LET negative == value[8] >= 128
      mag == IF negative THEN Sub64(Zero64, value) ELSE value
      prod == WideMul(Wide(mag), Wide(ratio))
      fits == IF negative THEN FitsNegInt64(prod) ELSE FitsInt64(prod)
  IN  IF fits THEN {[ret |-> "true", out |-> Mul64(value, ratio)]}
      ELSE {[ret |-> "true", out |-> Mul64(value, ratio)],
            [ret |-> "abort", out |-> Zero64]}

\* parse_duration(s, out): the possible results
parse_duration(s) ==
  IF Len(s) = 0 THEN {[ret |-> "false", out |-> Zero64]}
  ELSE LET l == digit_loop(s, 1, Zero64)
           unit == SubSeq(s, l.i, Len(s))
       IN  IF l.ovf THEN {[ret |-> "false", out |-> Zero64]}
           ELSE IF l.i = 1 \/ l.i > Len(s) THEN {[ret |-> "false", out |-> Zero64]}
           ELSE IF unit \in DOMAIN UnitNs THEN to_nanoseconds(l.value, UnitNs[unit])
           ELSE {[ret |-> "false", out |-> Zero64]}

\* characters of the short arguments
DurAlphabet == {"1", "9", "m", "s", "h", "x"}

\* arguments near the 64-bit limits: 2^64 - 1 and 2^64 seconds, the largest
\* millisecond and hour counts that fit and the next ones, 10^10 seconds,
\* twenty nines
LongInputs ==
  {<<"1", "8", "4", "4", "6", "7", "4", "4", "0", "7", "3", "7", "0", "9",
     "5", "5", "1", "6", "1", "5", "s">>,
   <<"1", "8", "4", "4", "6", "7", "4", "4", "0", "7", "3", "7", "0", "9",
     "5", "5", "1", "6", "1", "6", "s">>,
   <<"9", "2", "2", "3", "3", "7", "2", "0", "3", "6", "8", "5", "4", "m", "s">>,
   <<"9", "2", "2", "3", "3", "7", "2", "0", "3", "6", "8", "5", "5", "m", "s">>,
   <<"2", "5", "6", "2", "0", "4", "7", "h">>,
   <<"2", "5", "6", "2", "0", "4", "8", "h">>,
   <<"1", "0", "0", "0", "0", "0", "0", "0", "0", "0", "0", "s">>,
   <<"9", "9", "9", "9", "9", "9", "9", "9", "9", "9", "9", "9", "9", "9",
     "9", "9", "9", "9", "9", "9", "m">>}

DurationInputs ==
  LongInputs \cup UNION {[1 .. n -> DurAlphabet] : n \in 0 .. MaxDurLen}

\* a call about to be made with some argument
DurStart == pd_in \in DurationInputs /\ pd_ret = "none" /\ pd_out = Zero64

DurInit == RingStart /\ PipeNone /\ BloomNone /\ CmsNone /\ HllNone /\ DurStart /\ SaltNone /\ MainNone /\ ExpNone

\* parse_duration(pd_in, pd_out)
dur_parse ==
  /\ pd_ret = "none"
  /\ \E r \in parse_duration(pd_in) : pd_ret' = r.ret /\ pd_out' = r.out
  /\ UNCHANGED <<head_, tail_, data_, headCnt, tailCnt, ppc, p_head, p_next,
                 p_line, p_obs, p_seen, p_val, p_ret, cpc, c_tail, c_obs,
                 c_seen, c_out, c_ret, accepted, popped, cmd, has_jthread,
                 bucket_mode, done, merging, paused, workers_ended, stop_req,
                 reducer_stop, rings, rdpc, next_line, shard, wpc,
                 counted_pause, item, locals, acc, global, dpc, finishing,
                 rot, bucket_start, snapshots, mpc, pop_started, pop_cleared,
                 rot_started, rot_cleared, input_ok, bucket_ok, stop_after,
                 processed, result, single, content, shard_of, emitted, bf,
                 bf_added, bf_h1, bf_h2, bf_pos, bf_op, bf_ops, cs, cs_true,
                 cs_col, cs_ovf, cs_ops, cs_op, hl, hl_hash, hl_op, hl_ops,
                 pd_in, ts_base, ts_i, ts_j, ts_salt, mn_argv, mn_pc, mn_g,
                 mn_opt, mn_start, mn_cmd, mn_res, mn_exit, ex, ex_op, ex_ub>>
DurNext == dur_parse

DurSpec == DurInit /\ [][DurNext]_vars

\* --------------------------------------------- hashing::derive_thread_salt
\* base seeds tried: 0, 0xDEADBEEF (the unit test's), 2^64 - 1, kGolden
BaseSamples == {Zero64, U64(239, 190, 173, 222, 0, 0, 0, 0), AllOnes64, kGolden}

\* thread indices tried: 0 .. MaxThreadIndex, 2^32, 2^63, 2^64 - 1
IndexSamples ==
  {U64OfNat(n) : n \in 0 .. MaxThreadIndex}
  \cup {U64(0, 0, 0, 0, 1, 0, 0, 0), U64(0, 0, 0, 0, 0, 0, 0, 128), AllOnes64}

\* two calls about to be made with the same base
SaltStart ==
  /\ ts_base \in BaseSamples /\ ts_i \in IndexSamples /\ ts_j \in IndexSamples
  /\ ts_salt = << >>

SaltInit ==
  RingStart /\ PipeNone /\ BloomNone /\ CmsNone /\ HllNone /\ DurNone /\ SaltStart
  /\ MainNone /\ ExpNone

\* s1 = derive_thread_salt(base, i); s2 = derive_thread_salt(base, j)
salt_derive ==
  /\ ts_salt = << >>
  /\ ts_salt' = <<derive_thread_salt(ts_base, ts_i),
                  derive_thread_salt(ts_base, ts_j)>>
  /\ UNCHANGED <<head_, tail_, data_, headCnt, tailCnt, ppc, p_head, p_next,
                 p_line, p_obs, p_seen, p_val, p_ret, cpc, c_tail, c_obs,
                 c_seen, c_out, c_ret, accepted, popped, cmd, has_jthread,
                 bucket_mode, done, merging, paused, workers_ended, stop_req,
                 reducer_stop, rings, rdpc, next_line, shard, wpc,
                 counted_pause, item, locals, acc, global, dpc, finishing,
                 rot, bucket_start, snapshots, mpc, pop_started, pop_cleared,
                 rot_started, rot_cleared, input_ok, bucket_ok, stop_after,
                 processed, result, single, content, shard_of, emitted, bf,
                 bf_added, bf_h1, bf_h2, bf_pos, bf_op, bf_ops, cs, cs_true,
                 cs_col, cs_ovf, cs_ops, cs_op, hl, hl_hash, hl_op, hl_ops,
                 pd_in, pd_ret, pd_out, ts_base, ts_i, ts_j, mn_argv, mn_pc,
                 mn_g, mn_opt, mn_start, mn_cmd, mn_res, mn_exit, ex, ex_op,
                 ex_ub>>
SaltNext == salt_derive

SaltSpec == SaltInit /\ [][SaltNext]_vars

\* ------------------------------------------------------- main (probkit CLI)
\* enum class OptionResult, CommandResult, ExitCode with their values
OptionResult ==
  [HelpShown |-> 0, Handled |-> 1, NotHandled |-> 2, SubcommandStart |-> 3,
   Error |-> 255]

CommandResult == [Success |-> 0, GeneralError |-> 2, IOError |-> 3, ConfigError |-> 5]

ExitCode == [Success |-> 0, GeneralError |-> 1, ArgumentError |-> 2]

\* An argument is [opt, val]: opt is its text up to and including the first
\* '=' (the whole text if there is none), val the characters after it.
Arg(opt, val) == [opt |-> opt, val |-> val]

\* option texts that begin with '-'
DashOpts ==
  {"--json", "--threads=", "--file=", "--hash=", "--stop-after=", "--stats",
   "--stats=", "--bucket=", "--prom", "--prom=", "--mem-budget=", "--help",
   "--bogus"}

\* a == "text" for a text without '='
arg_is(a, text) == a.opt = text /\ a.val = << >>

\* parse_u64(s, out): [ok, value]; fails on an empty text, a character that
\* is no digit, and a value past 2^64 - 1
parse_u64(s) ==
  LET r == digit_loop(s, 1, Zero64)
  IN  [ok |-> Len(s) > 0 /\ r.i > Len(s) /\ ~r.ovf, value |-> r.value]

\* parse_u64 succeeded with 1 <= v <= hi (hi < 2^16)
u64_in_1_to(s, hi) ==
  LET r == parse_u64(s)
  IN  /\ r.ok
      /\ r.value # Zero64
      /\ ~Less64(U64OfNat(hi), r.value)

\* process_global_option(a, g): the OptionResult and the options afterwards
\* (the handlers of kGlobalHandlers in order; of g only json and threads are
\* kept)
process_global_option(a, g) ==
  LET R(name) == OptionResult[name]
      Fixed(r) == [r |-> r, g |-> g]
  IN  CASE a.opt \notin DashOpts -> Fixed(R("SubcommandStart"))
        [] arg_is(a, "--help") -> Fixed(R("HelpShown"))
        [] arg_is(a, "--json") -> [r |-> R("Handled"), g |-> [g EXCEPT !.json = TRUE]]
        [] a.opt = "--threads=" ->
             IF u64_in_1_to(a.val, 1024)
             THEN [r |-> R("Handled"),
                   g |-> [g EXCEPT !.threads = LET v == parse_u64(a.val).value
                                            IN  v[1] + 256 * v[2]]]
             ELSE Fixed(R("Error"))
        [] a.opt = "--file=" -> Fixed(R("Handled"))
        [] a.opt = "--hash=" ->
             IF a.val \in {<<"wyhash">>, <<"xxhash">>, <<"xxh">>} THEN Fixed(R("Handled"))
             ELSE Fixed(R("Error"))
        [] a.opt = "--stop-after=" ->
             IF parse_u64(a.val).ok THEN Fixed(R("Handled")) ELSE Fixed(R("Error"))
        [] arg_is(a, "--stats") -> Fixed(R("Handled"))
        [] a.opt = "--stats=" ->
             IF u64_in_1_to(a.val, 3600) THEN Fixed(R("Handled"))
             ELSE Fixed(R("Error"))
        [] a.opt = "--bucket=" ->
             IF a.val = << >> THEN Fixed(R("Error")) ELSE Fixed(R("Handled"))
        [] arg_is(a, "--prom") \/ a.opt = "--prom=" -> Fixed(R("Handled"))
        [] a.opt = "--mem-budget=" ->
             IF parse_u64(a.val).ok THEN Fixed(R("Handled")) ELSE Fixed(R("Error"))
        [] OTHER -> Fixed(R("Error"))

\* parse_global_options(argc, argv, g) from argi on: the int returned, the
\* options afterwards and the OptionResult that ended the loop (argv[i] of
\* the code is argv[i + 1] here)
RECURSIVE parse_from(_, _, _)
parse_from(argv, argi, g) ==
  IF argi >= Len(argv) THEN [ret |-> argi, g |-> g, opt |-> "none"]
  ELSE LET o == process_global_option(argv[argi + 1], g)
       IN  IF o.r = OptionResult.HelpShown
           THEN [ret |-> ExitCode.Success, g |-> o.g, opt |-> "HelpShown"]
           ELSE IF o.r = OptionResult.Error
           THEN [ret |-> ExitCode.ArgumentError, g |-> o.g, opt |-> "Error"]
           ELSE IF o.r = OptionResult.SubcommandStart
           THEN [ret |-> argi, g |-> o.g, opt |-> "SubcommandStart"]
           ELSE parse_from(argv, argi + 1, o.g)

parse_global_options(argv, g) == parse_from(argv, 1, g)

\* the arguments tried
ArgSamples ==
  {Arg("--json", << >>), Arg("--threads=", <<"1">>), Arg("--threads=", <<"x">>),
   Arg("--threads=", <<"9", "9", "9", "9">>), Arg("--help", << >>),
   Arg("--bogus", << >>), Arg("hll", << >>), Arg("bloom", << >>),
   Arg("cms", << >>), Arg("frob", << >>), Arg("", << >>)}

RECURSIVE ArgLists(_)
ArgLists(n) ==
  IF n = 0 THEN {<< >>}
  ELSE LET shorter == ArgLists(n - 1)
       IN  shorter \cup {Append(l, a) : l \in {x \in shorter : Len(x) = n - 1},
                                        a \in ArgSamples}

\* the executable is started with argc in 1 .. MaxArgc
MainStart ==
  /\ mn_argv \in {<<Arg("probkit", << >>)>> \o l : l \in ArgLists(MaxArgc - 1)}
  /\ mn_pc = "start" /\ mn_g = DefaultOptions /\ mn_opt = "none"
  /\ mn_start = 0 /\ mn_cmd = "none" /\ mn_res = -1 /\ mn_exit = -1

MainInit ==
  /\ RingStart /\ PipeNone /\ BloomNone /\ CmsNone /\ HllNone /\ DurNone
  /\ SaltNone /\ MainStart /\ ExpNone

\* main up to the call of dispatch_command
main_start ==
  /\ mn_pc = "start"
  /\ IF Len(mn_argv) <= 1
     THEN /\ mn_exit' = ExitCode.Success /\ mn_pc' = "exit"
          /\ UNCHANGED <<mn_g, mn_opt, mn_start>>
     ELSE LET p == parse_global_options(mn_argv, mn_g)
          IN  /\ mn_g' = p.g /\ mn_opt' = p.opt /\ mn_start' = p.ret
              /\ IF p.ret = ExitCode.Success
                 THEN mn_exit' = ExitCode.Success /\ mn_pc' = "exit"
                 ELSE IF p.ret < 0
                 THEN mn_exit' = ExitCode.ArgumentError /\ mn_pc' = "exit"
                 ELSE mn_exit' = mn_exit /\ mn_pc' = "dispatch"
  /\ UNCHANGED <<head_, tail_, data_, headCnt, tailCnt, ppc, p_head, p_next,
                 p_line, p_obs, p_seen, p_val, p_ret, cpc, c_tail, c_obs,
                 c_seen, c_out, c_ret, accepted, popped, cmd, has_jthread,
                 bucket_mode, done, merging, paused, workers_ended, stop_req,
                 reducer_stop, rings, rdpc, next_line, shard, wpc,
                 counted_pause, item, locals, acc, global, dpc, finishing,
                 rot, bucket_start, snapshots, mpc, pop_started, pop_cleared,
                 rot_started, rot_cleared, input_ok, bucket_ok, stop_after,
                 processed, result, single, content, shard_of, emitted, bf,
                 bf_added, bf_h1, bf_h2, bf_pos, bf_op, bf_ops, cs, cs_true,
                 cs_col, cs_ovf, cs_ops, cs_op, hl, hl_hash, hl_op, hl_ops,
                 pd_in, pd_ret, pd_out, ts_base, ts_i, ts_j, ts_salt,
                 mn_argv, mn_cmd, mn_res, ex, ex_op, ex_ub>>
\* dispatch_command up to the call of the subcommand
main_dispatch ==
  /\ mn_pc = "dispatch"
  /\ IF mn_start >= Len(mn_argv)
     THEN mn_exit' = ExitCode.Success /\ mn_pc' = "exit" /\ mn_cmd' = mn_cmd
     ELSE LET c == mn_argv[mn_start + 1]
          IN  IF \E n \in {"bloom", "hll", "cms"} : arg_is(c, n)
              THEN mn_cmd' = c.opt /\ mn_pc' = "cmd" /\ mn_exit' = mn_exit
              ELSE /\ mn_exit' = ExitCode.ArgumentError /\ mn_pc' = "exit"
                   /\ mn_cmd' = mn_cmd
  /\ UNCHANGED <<head_, tail_, data_, headCnt, tailCnt, ppc, p_head, p_next,
                 p_line, p_obs, p_seen, p_val, p_ret, cpc, c_tail, c_obs,
                 c_seen, c_out, c_ret, accepted, popped, cmd, has_jthread,
                 bucket_mode, done, merging, paused, workers_ended, stop_req,
                 reducer_stop, rings, rdpc, next_line, shard, wpc,
                 counted_pause, item, locals, acc, global, dpc, finishing,
                 rot, bucket_start, snapshots, mpc, pop_started, pop_cleared,
                 rot_started, rot_cleared, input_ok, bucket_ok, stop_after,
                 processed, result, single, content, shard_of, emitted, bf,
                 bf_added, bf_h1, bf_h2, bf_pos, bf_op, bf_ops, cs, cs_true,
                 cs_col, cs_ovf, cs_ops, cs_op, hl, hl_hash, hl_op, hl_ops,
                 pd_in, pd_ret, pd_out, ts_base, ts_i, ts_j, ts_salt,
                 mn_argv, mn_g, mn_opt, mn_start, mn_res, ex, ex_op, ex_ub>>
\* the subcommand returns; dispatch_command and main return
main_cmd_return ==
  /\ mn_pc = "cmd"
  /\ \E r \in {CommandResult[n] : n \in DOMAIN CommandResult} :
       /\ mn_res' = r
       /\ mn_exit' = IF r = CommandResult.Success THEN ExitCode.Success
                     ELSE ExitCode.GeneralError
  /\ mn_pc' = "exit"
  /\ UNCHANGED <<head_, tail_, data_, headCnt, tailCnt, ppc, p_head, p_next,
                 p_line, p_obs, p_seen, p_val, p_ret, cpc, c_tail, c_obs,
                 c_seen, c_out, c_ret, accepted, popped, cmd, has_jthread,
                 bucket_mode, done, merging, paused, workers_ended, stop_req,
                 reducer_stop, rings, rdpc, next_line, shard, wpc,
                 counted_pause, item, locals, acc, global, dpc, finishing,
                 rot, bucket_start, snapshots, mpc, pop_started, pop_cleared,
                 rot_started, rot_cleared, input_ok, bucket_ok, stop_after,
                 processed, result, single, content, shard_of, emitted, bf,
                 bf_added, bf_h1, bf_h2, bf_pos, bf_op, bf_ops, cs, cs_true,
                 cs_col, cs_ovf, cs_ops, cs_op, hl, hl_hash, hl_op, hl_ops,
                 pd_in, pd_ret, pd_out, ts_base, ts_i, ts_j, ts_salt,
                 mn_argv, mn_g, mn_opt, mn_start, mn_cmd, ex, ex_op, ex_ub>>
MainNext == main_start \/ main_dispatch \/ main_cmd_return

MainSpec == MainInit /\ [][MainNext]_vars

\* ------------------------------------------------- expected<T, E> (result)
Objects == 1 .. NumObjects

\* payload values of T and of E; 0 is the state a payload is left in by
\* std::move when the move constructor empties it
Payloads == 0 .. NumPayloads

\* a union member outside its lifetime: no payload value
Dead == -(NumPayloads + 1)

\* storage before any constructor ran, and as ~expected leaves it
NoObject == [st |-> "none", has_ |-> FALSE, val |-> Dead, err |-> Dead]

\* expected(const T& v) / expected(T&& v)
of_value(v) == [st |-> "live", has_ |-> TRUE, val |-> v, err |-> Dead]

\* expected(const E& e) / expected(E&& e): has_ keeps its initializer false
of_error(e) == [st |-> "live", has_ |-> FALSE, val |-> Dead, err |-> e]

\* expected(const expected& other) with has_ left at its initializer
copy_ctor_no_flag(other) ==
  IF other.has_
  THEN [st |-> "live", has_ |-> FALSE, val |-> other.val, err |-> Dead]
  ELSE [st |-> "live", has_ |-> FALSE, val |-> Dead, err |-> other.err]

\* expected(const expected& other) and the body of expected(expected&& other):
\* the member of the source's variant is constructed from the source's
copy_ctor(other) ==
  IF other.has_
  THEN [st |-> "live", has_ |-> TRUE, val |-> other.val, err |-> Dead]
  ELSE [st |-> "live", has_ |-> FALSE, val |-> Dead, err |-> other.err]

\* the source after std::move of its payload: the payload stays alive, with
\* its old content or emptied
moved_from(other) ==
  IF other.has_ THEN {other, [other EXCEPT !.val = 0]}
  ELSE {other, [other EXCEPT !.err = 0]}

\* the payload a constructor reads from other is alive
readable(other) == IF other.has_ THEN other.val # Dead ELSE other.err # Dead

\* ~expected(): destroys the member has_ selects; has_ is left as it is
dtor_val_always(o) == [o EXCEPT !.st = "destroyed", !.val = Dead]

dtor(o) ==
  IF o.has_ THEN [o EXCEPT !.st = "destroyed", !.val = Dead]
  ELSE [o EXCEPT !.st = "destroyed", !.err = Dead]

\* the member ~expected() destroys is alive
destroyable(o) == readable(o)

ExpOp(op, dst, src) == [op |-> op, dst |-> dst, src |-> src]

\* NumObjects objects, none constructed yet
ExpStart ==
  /\ ex = [o \in Objects |-> NoObject]
  /\ ex_op = [op |-> "none"] /\ ex_ub = FALSE

ExpInit ==
  /\ RingStart /\ PipeNone /\ BloomNone /\ CmsNone /\ HllNone /\ DurNone
  /\ SaltNone /\ MainNone /\ ExpStart

\* result<T> o{v};
exp_make_value ==
  \E o \in Objects, v \in Payloads \ {0} :
    /\ ex[o].st = "none"
    /\ ex' = [ex EXCEPT ![o] = of_value(v)]
    /\ ex_op' = ExpOp("value", o, o)
  /\ UNCHANGED <<head_, tail_, data_, headCnt, tailCnt, ppc, p_head, p_next,
                 p_line, p_obs, p_seen, p_val, p_ret, cpc, c_tail, c_obs,
                 c_seen, c_out, c_ret, accepted, popped, cmd, has_jthread,
                 bucket_mode, done, merging, paused, workers_ended, stop_req,
                 reducer_stop, rings, rdpc, next_line, shard, wpc,
                 counted_pause, item, locals, acc, global, dpc, finishing,
                 rot, bucket_start, snapshots, mpc, pop_started, pop_cleared,
                 rot_started, rot_cleared, input_ok, bucket_ok, stop_after,
                 processed, result, single, content, shard_of, emitted, bf,
                 bf_added, bf_h1, bf_h2, bf_pos, bf_op, bf_ops, cs, cs_true,
                 cs_col, cs_ovf, cs_ops, cs_op, hl, hl_hash, hl_op, hl_ops,
                 pd_in, pd_ret, pd_out, ts_base, ts_i, ts_j, ts_salt,
                 mn_argv, mn_pc, mn_g, mn_opt, mn_start, mn_cmd, mn_res,
                 mn_exit, ex_ub>>
\* result<T> o{e};
exp_make_error ==
  \E o \in Objects, e \in Payloads \ {0} :
    /\ ex[o].st = "none"
    /\ ex' = [ex EXCEPT ![o] = of_error(e)]
    /\ ex_op' = ExpOp("error", o, o)
  /\ UNCHANGED <<head_, tail_, data_, headCnt, tailCnt, ppc, p_head, p_next,
                 p_line, p_obs, p_seen, p_val, p_ret, cpc, c_tail, c_obs,
                 c_seen, c_out, c_ret, accepted, popped, cmd, has_jthread,
                 bucket_mode, done, merging, paused, workers_ended, stop_req,
                 reducer_stop, rings, rdpc, next_line, shard, wpc,
                 counted_pause, item, locals, acc, global, dpc, finishing,
                 rot, bucket_start, snapshots, mpc, pop_started, pop_cleared,
                 rot_started, rot_cleared, input_ok, bucket_ok, stop_after,
                 processed, result, single, content, shard_of, emitted, bf,
                 bf_added, bf_h1, bf_h2, bf_pos, bf_op, bf_ops, cs, cs_true,
                 cs_col, cs_ovf, cs_ops, cs_op, hl, hl_hash, hl_op, hl_ops,
                 pd_in, pd_ret, pd_out, ts_base, ts_i, ts_j, ts_salt,
                 mn_argv, mn_pc, mn_g, mn_opt, mn_start, mn_cmd, mn_res,
                 mn_exit, ex_ub>>
\* auto dst = src;
exp_copy_construct ==
  \E dst \in Objects, src \in Objects :
    /\ ex[dst].st = "none" /\ ex[src].st = "live"
    /\ ex' = [ex EXCEPT ![dst] = copy_ctor(ex[src])]
    /\ ex_ub' = (ex_ub \/ ~readable(ex[src]))
    /\ ex_op' = ExpOp("copy_construct", dst, src)
  /\ UNCHANGED <<head_, tail_, data_, headCnt, tailCnt, ppc, p_head, p_next,
                 p_line, p_obs, p_seen, p_val, p_ret, cpc, c_tail, c_obs,
                 c_seen, c_out, c_ret, accepted, popped, cmd, has_jthread,
                 bucket_mode, done, merging, paused, workers_ended, stop_req,
                 reducer_stop, rings, rdpc, next_line, shard, wpc,
                 counted_pause, item, locals, acc, global, dpc, finishing,
                 rot, bucket_start, snapshots, mpc, pop_started, pop_cleared,
                 rot_started, rot_cleared, input_ok, bucket_ok, stop_after,
                 processed, result, single, content, shard_of, emitted, bf,
                 bf_added, bf_h1, bf_h2, bf_pos, bf_op, bf_ops, cs, cs_true,
                 cs_col, cs_ovf, cs_ops, cs_op, hl, hl_hash, hl_op, hl_ops,
                 pd_in, pd_ret, pd_out, ts_base, ts_i, ts_j, ts_salt,
                 mn_argv, mn_pc, mn_g, mn_opt, mn_start, mn_cmd, mn_res,
                 mn_exit>>
\* auto dst = std::move(src);
exp_move_construct ==
  \E dst \in Objects, src \in Objects :
    /\ ex[dst].st = "none" /\ ex[src].st = "live"
    /\ \E after \in moved_from(ex[src]) :
         ex' = [ex EXCEPT ![dst] = copy_ctor(ex[src]), ![src] = after]
    /\ ex_ub' = (ex_ub \/ ~readable(ex[src]))
    /\ ex_op' = ExpOp("move_construct", dst, src)
  /\ UNCHANGED <<head_, tail_, data_, headCnt, tailCnt, ppc, p_head, p_next,
                 p_line, p_obs, p_seen, p_val, p_ret, cpc, c_tail, c_obs,
                 c_seen, c_out, c_ret, accepted, popped, cmd, has_jthread,
                 bucket_mode, done, merging, paused, workers_ended, stop_req,
                 reducer_stop, rings, rdpc, next_line, shard, wpc,
                 counted_pause, item, locals, acc, global, dpc, finishing,
                 rot, bucket_start, snapshots, mpc, pop_started, pop_cleared,
                 rot_started, rot_cleared, input_ok, bucket_ok, stop_after,
                 processed, result, single, content, shard_of, emitted, bf,
                 bf_added, bf_h1, bf_h2, bf_pos, bf_op, bf_ops, cs, cs_true,
                 cs_col, cs_ovf, cs_ops, cs_op, hl, hl_hash, hl_op, hl_ops,
                 pd_in, pd_ret, pd_out, ts_base, ts_i, ts_j, ts_salt,
                 mn_argv, mn_pc, mn_g, mn_opt, mn_start, mn_cmd, mn_res,
                 mn_exit>>
\* dst = src;  (this == &other returns at once)
exp_copy_assign ==
  \E dst \in Objects, src \in Objects :
    /\ ex[dst].st = "live" /\ ex[src].st = "live"
    /\ IF dst = src THEN UNCHANGED <<ex, ex_ub>>
       ELSE /\ ex' = [ex EXCEPT ![dst] = copy_ctor(ex[src])]
            /\ ex_ub' = (ex_ub \/ ~destroyable(ex[dst]) \/ ~readable(ex[src])
                         \/ dtor(ex[dst]).val # Dead \/ dtor(ex[dst]).err # Dead)
    /\ ex_op' = ExpOp("copy_assign", dst, src)
  /\ UNCHANGED <<head_, tail_, data_, headCnt, tailCnt, ppc, p_head, p_next,
                 p_line, p_obs, p_seen, p_val, p_ret, cpc, c_tail, c_obs,
                 c_seen, c_out, c_ret, accepted, popped, cmd, has_jthread,
                 bucket_mode, done, merging, paused, workers_ended, stop_req,
                 reducer_stop, rings, rdpc, next_line, shard, wpc,
                 counted_pause, item, locals, acc, global, dpc, finishing,
                 rot, bucket_start, snapshots, mpc, pop_started, pop_cleared,
                 rot_started, rot_cleared, input_ok, bucket_ok, stop_after,
                 processed, result, single, content, shard_of, emitted, bf,
                 bf_added, bf_h1, bf_h2, bf_pos, bf_op, bf_ops, cs, cs_true,
                 cs_col, cs_ovf, cs_ops, cs_op, hl, hl_hash, hl_op, hl_ops,
                 pd_in, pd_ret, pd_out, ts_base, ts_i, ts_j, ts_salt,
                 mn_argv, mn_pc, mn_g, mn_opt, mn_start, mn_cmd, mn_res,
                 mn_exit>>
\* dst = std::move(src);
exp_move_assign ==
  \E dst \in Objects, src \in Objects :
    /\ ex[dst].st = "live" /\ ex[src].st = "live"
    /\ IF dst = src THEN UNCHANGED <<ex, ex_ub>>
       ELSE /\ \E after \in moved_from(ex[src]) :
                 ex' = [ex EXCEPT ![dst] = copy_ctor(ex[src]), ![src] = after]
            /\ ex_ub' = (ex_ub \/ ~destroyable(ex[dst]) \/ ~readable(ex[src])
                         \/ dtor(ex[dst]).val # Dead \/ dtor(ex[dst]).err # Dead)
    /\ ex_op' = ExpOp("move_assign", dst, src)
  /\ UNCHANGED <<head_, tail_, data_, headCnt, tailCnt, ppc, p_head, p_next,
                 p_line, p_obs, p_seen, p_val, p_ret, cpc, c_tail, c_obs,
                 c_seen, c_out, c_ret, accepted, popped, cmd, has_jthread,
                 bucket_mode, done, merging, paused, workers_ended, stop_req,
                 reducer_stop, rings, rdpc, next_line, shard, wpc,
                 counted_pause, item, locals, acc, global, dpc, finishing,
                 rot, bucket_start, snapshots, mpc, pop_started, pop_cleared,
                 rot_started, rot_cleared, input_ok, bucket_ok, stop_after,
                 processed, result, single, content, shard_of, emitted, bf,
                 bf_added, bf_h1, bf_h2, bf_pos, bf_op, bf_ops, cs, cs_true,
                 cs_col, cs_ovf, cs_ops, cs_op, hl, hl_hash, hl_op, hl_ops,
                 pd_in, pd_ret, pd_out, ts_base, ts_i, ts_j, ts_salt,
                 mn_argv, mn_pc, mn_g, mn_opt, mn_start, mn_cmd, mn_res,
                 mn_exit>>
\* o goes out of scope
exp_destroy ==
  \E o \in Objects :
    /\ ex[o].st = "live"
    /\ ex' = [ex EXCEPT ![o] = dtor(ex[o])]
    /\ ex_ub' = (ex_ub \/ ~destroyable(ex[o]))
    /\ ex_op' = ExpOp("destroy", o, o)
  /\ UNCHANGED <<head_, tail_, data_, headCnt, tailCnt, ppc, p_head, p_next,
                 p_line, p_obs, p_seen, p_val, p_ret, cpc, c_tail, c_obs,
                 c_seen, c_out, c_ret, accepted, popped, cmd, has_jthread,
                 bucket_mode, done, merging, paused, workers_ended, stop_req,
                 reducer_stop, rings, rdpc, next_line, shard, wpc,
                 counted_pause, item, locals, acc, global, dpc, finishing,
                 rot, bucket_start, snapshots, mpc, pop_started, pop_cleared,
                 rot_started, rot_cleared, input_ok, bucket_ok, stop_after,
                 processed, result, single, content, shard_of, emitted, bf,
                 bf_added, bf_h1, bf_h2, bf_pos, bf_op, bf_ops, cs, cs_true,
                 cs_col, cs_ovf, cs_ops, cs_op, hl, hl_hash, hl_op, hl_ops,
                 pd_in, pd_ret, pd_out, ts_base, ts_i, ts_j, ts_salt,
                 mn_argv, mn_pc, mn_g, mn_opt, mn_start, mn_cmd, mn_res,
                 mn_exit>>
ExpNext ==
  \/ exp_make_value
  \/ exp_make_error
  \/ exp_copy_construct
  \/ exp_move_construct
  \/ exp_copy_assign
  \/ exp_move_assign
  \/ exp_destroy

ExpSpec == ExpInit /\ [][ExpNext]_vars

\* ------------------------------------------------- the three sketch types
\* one of the three sketch types under test, driven through its interface
SketchInit ==
  /\ RingStart /\ PipeNone /\ DurNone /\ SaltNone /\ MainNone /\ ExpNone
  /\ \/ HllStart /\ BloomNone /\ CmsNone
     \/ HllNone /\ BloomStart /\ CmsNone
     \/ HllNone /\ BloomNone /\ CmsStart

SketchNext ==
  \/ hl # << >> /\ HllNext
  \/ bf # << >> /\ BloomNext
  \/ cs # << >> /\ CmsNext

SketchSpec == SketchInit /\ [][SketchNext]_vars

\* ---------------------------------------------------------------- pipeline
\* first statement of a worker's loop body: the cms command without bucket
\* support and the bloom worker have no merging test
LoopHead == IF (cmd = "cms" /\ ~bucket_mode) \/ cmd = "bloom" THEN "pop" ELSE "check"

\* the reducer's loop test reads its stop token only in the jthread build
LoopStart == IF has_jthread THEN "loop" ELSE "decide"

PipeInit ==
  /\ cmd \in {"hll", "cms", "bloom"}
  /\ has_jthread \in (IF cmd = "bloom" THEN {FALSE} ELSE BOOLEAN)
  /\ bucket_mode \in (IF cmd = "bloom" THEN {FALSE} ELSE BOOLEAN)
  /\ single \in (IF cmd = "cms" THEN {FALSE} ELSE BOOLEAN)
  /\ content \in (IF cmd = "bloom" THEN [Lines -> Lines] ELSE {[l \in Lines |-> l]})
  /\ shard_of \in (IF cmd = "bloom" /\ ~single
                    THEN [Lines -> 0 .. (NumWorkers - 1)]
                    ELSE {[k \in Lines |-> 0]})
  /\ emitted = << >>
  /\ done = FALSE /\ merging = FALSE /\ paused = 0 /\ workers_ended = FALSE
  /\ stop_req = [w \in Workers |-> FALSE] /\ reducer_stop = FALSE
  /\ rings = [w \in Workers |-> << >>]
  /\ input_ok \in BOOLEAN
  /\ bucket_ok \in (IF bucket_mode THEN BOOLEAN ELSE {TRUE})
  /\ stop_after \in 0 .. MaxStopAfter
  /\ processed = 0 /\ result = "none"
  /\ rdpc = "unstarted" /\ next_line = 1 /\ shard = 0
  /\ wpc = [w \in Workers |-> "unstarted"]
  /\ counted_pause = [w \in Workers |-> FALSE]
  /\ item = [w \in Workers |-> 0]
  /\ locals = [w \in Workers |-> make_sketch(local_hash(cmd, w))]
  /\ acc = make_sketch(local_hash(cmd, 1))
  /\ global = make_sketch(g_hash)
  /\ dpc = IF bucket_mode /\ ~single THEN "unstarted" ELSE "none"
  /\ finishing = FALSE /\ rot = 0 /\ bucket_start = 0
  /\ snapshots = << >>
  /\ mpc = IF single THEN "s_open" ELSE "spawn_workers"
  /\ pop_started = [l \in Lines |-> 0] /\ pop_cleared = [l \in Lines |-> 0]
  /\ rot_started = 0 /\ rot_cleared = 0

Init == RingStart /\ PipeInit /\ BloomNone /\ CmsNone /\ HllNone /\ DurNone /\ SaltNone /\ MainNone /\ ExpNone

\* ---- reader thread
\* reader_open returning after a failed open without storing done
reader_open_no_done ==
  /\ rdpc = "open"
  /\ rdpc' = IF input_ok THEN "run" ELSE "exit"
  /\ UNCHANGED <<head_, tail_, data_, headCnt, tailCnt, ppc, p_head, p_next,
                 p_line, p_obs, p_seen, p_val, p_ret, cpc, c_tail, c_obs,
                 c_seen, c_out, c_ret, accepted, popped, cmd, has_jthread,
                 bucket_mode, done, merging, paused, workers_ended, stop_req,
                 reducer_stop, rings, next_line, shard, wpc, counted_pause,
                 item, locals, acc, global, dpc, finishing, rot,
                 bucket_start, snapshots, mpc, pop_started, pop_cleared,
                 rot_started, rot_cleared, input_ok, bucket_ok, stop_after,
                 processed, result, single, content, shard_of, emitted, bf,
                 bf_added, bf_h1, bf_h2, bf_pos, bf_op, bf_ops, cs, cs_true,
                 cs_col, cs_ovf, cs_ops, cs_op, hl, hl_hash, hl_op, hl_ops,
                 pd_in, pd_ret, pd_out, ts_base, ts_i, ts_j, ts_salt,
                 mn_argv, mn_pc, mn_g, mn_opt, mn_start, mn_cmd, mn_res,
                 mn_exit, ex, ex_op, ex_ub>>
\* if (!open_input(g, file_in, in)) { done.store(true, release); return; }
reader_open ==
  /\ rdpc = "open"
  /\ IF input_ok
       THEN rdpc' = "run" /\ done' = done
       ELSE rdpc' = "exit" /\ done' = TRUE
  /\ UNCHANGED <<head_, tail_, data_, headCnt, tailCnt, ppc, p_head, p_next,
                 p_line, p_obs, p_seen, p_val, p_ret, cpc, c_tail, c_obs,
                 c_seen, c_out, c_ret, accepted, popped, cmd, has_jthread,
                 bucket_mode, merging, paused, workers_ended, stop_req,
                 reducer_stop, rings, next_line, shard, wpc, counted_pause,
                 item, locals, acc, global, dpc, finishing, rot,
                 bucket_start, snapshots, mpc, pop_started, pop_cleared,
                 rot_started, rot_cleared, input_ok, bucket_ok, stop_after,
                 processed, result, single, content, shard_of, emitted, bf,
                 bf_added, bf_h1, bf_h2, bf_pos, bf_op, bf_ops, cs, cs_true,
                 cs_col, cs_ovf, cs_ops, cs_op, hl, hl_hash, hl_op, hl_ops,
                 pd_in, pd_ret, pd_out, ts_base, ts_i, ts_j, ts_salt,
                 mn_argv, mn_pc, mn_g, mn_opt, mn_start, mn_cmd, mn_res,
                 mn_exit, ex, ex_op, ex_ub>>
\* reader_dispatch with the bloom lines dealt round robin like cms lines
reader_dispatch_round_robin ==
  /\ rdpc = "run"
  /\ next_line <= NumLines
  /\ LET w == shard + 1
     IN  /\ Len(rings[w]) < PipeCap - 1
         /\ rings' = [rings EXCEPT ![w] = Append(@, next_line)]
         /\ shard' = (shard + 1) % NumWorkers
  /\ next_line' = next_line + 1
  /\ processed' = IF stop_after # 0 THEN processed + 1 ELSE processed
  /\ rdpc' = IF stop_after # 0 /\ processed' >= stop_after THEN "break" ELSE "run"
  /\ UNCHANGED <<head_, tail_, data_, headCnt, tailCnt, ppc, p_head, p_next,
                 p_line, p_obs, p_seen, p_val, p_ret, cpc, c_tail, c_obs,
                 c_seen, c_out, c_ret, accepted, popped, cmd, has_jthread,
                 bucket_mode, done, merging, paused, workers_ended, stop_req,
                 reducer_stop, wpc, counted_pause, item, locals, acc, global,
                 dpc, finishing, rot, bucket_start, snapshots, mpc,
                 pop_started, pop_cleared, rot_started, rot_cleared,
                 input_ok, bucket_ok, stop_after, result, single, content,
                 shard_of, emitted, bf, bf_added, bf_h1, bf_h2, bf_pos,
                 bf_op, bf_ops, cs, cs_true, cs_col, cs_ovf, cs_ops, cs_op,
                 hl, hl_hash, hl_op, hl_ops, pd_in, pd_ret, pd_out, ts_base,
                 ts_i, ts_j, ts_salt, mn_argv, mn_pc, mn_g, mn_opt, mn_start,
                 mn_cmd, mn_res, mn_exit, ex, ex_op, ex_ub>>
\* reader_dispatch with the limit test written as processed > stop_after
reader_dispatch_limit_off_by_one ==
  /\ rdpc = "run"
  /\ next_line <= NumLines
  /\ \E hv \in (IF cmd = "bloom" THEN {shard_of[content[next_line]]}
                                   ELSE 0 .. (NumWorkers - 1)) :
       LET sh == IF cmd = "cms" THEN shard ELSE hv % NumWorkers
           w == sh + 1
       IN  /\ Len(rings[w]) < PipeCap - 1
           /\ rings' = [rings EXCEPT ![w] = Append(@, next_line)]
           /\ shard' = IF cmd = "cms" THEN (shard + 1) % NumWorkers ELSE shard
  /\ next_line' = next_line + 1
  /\ processed' = IF stop_after # 0 THEN processed + 1 ELSE processed
  /\ rdpc' = IF stop_after # 0 /\ processed' > stop_after THEN "break" ELSE "run"
  /\ UNCHANGED <<head_, tail_, data_, headCnt, tailCnt, ppc, p_head, p_next,
                 p_line, p_obs, p_seen, p_val, p_ret, cpc, c_tail, c_obs,
                 c_seen, c_out, c_ret, accepted, popped, cmd, has_jthread,
                 bucket_mode, done, merging, paused, workers_ended, stop_req,
                 reducer_stop, wpc, counted_pause, item, locals, acc, global,
                 dpc, finishing, rot, bucket_start, snapshots, mpc,
                 pop_started, pop_cleared, rot_started, rot_cleared,
                 input_ok, bucket_ok, stop_after, result, single, content,
                 shard_of, emitted, bf, bf_added, bf_h1, bf_h2, bf_pos,
                 bf_op, bf_ops, cs, cs_true, cs_col, cs_ovf, cs_ops, cs_op,
                 hl, hl_hash, hl_op, hl_ops, pd_in, pd_ret, pd_out, ts_base,
                 ts_i, ts_j, ts_salt, mn_argv, mn_pc, mn_g, mn_opt, mn_start,
                 mn_cmd, mn_res, mn_exit, ex, ex_op, ex_ub>>
\* getline succeeds; shard = hash64(line) % N (hll, bloom) or round robin (cms);
\* dispatch_line: try_emplace retried until the ring has room;
\* if (g.stop_after && ++processed >= g.stop_after) break
reader_dispatch ==
  /\ rdpc = "run"
  /\ next_line <= NumLines
  /\ \E hv \in (IF cmd = "bloom" THEN {shard_of[content[next_line]]}
                                   ELSE 0 .. (NumWorkers - 1)) :
       LET sh == IF cmd = "cms" THEN shard ELSE hv % NumWorkers
           w == sh + 1
       IN  /\ Len(rings[w]) < PipeCap - 1
           /\ rings' = [rings EXCEPT ![w] = Append(@, next_line)]
           /\ shard' = IF cmd = "cms" THEN (shard + 1) % NumWorkers ELSE shard
  /\ next_line' = next_line + 1
  /\ processed' = IF stop_after # 0 THEN processed + 1 ELSE processed
  /\ rdpc' = IF stop_after # 0 /\ processed' >= stop_after THEN "break" ELSE "run"
  /\ UNCHANGED <<head_, tail_, data_, headCnt, tailCnt, ppc, p_head, p_next,
                 p_line, p_obs, p_seen, p_val, p_ret, cpc, c_tail, c_obs,
                 c_seen, c_out, c_ret, accepted, popped, cmd, has_jthread,
                 bucket_mode, done, merging, paused, workers_ended, stop_req,
                 reducer_stop, wpc, counted_pause, item, locals, acc, global,
                 dpc, finishing, rot, bucket_start, snapshots, mpc,
                 pop_started, pop_cleared, rot_started, rot_cleared,
                 input_ok, bucket_ok, stop_after, result, single, content,
                 shard_of, emitted, bf, bf_added, bf_h1, bf_h2, bf_pos,
                 bf_op, bf_ops, cs, cs_true, cs_col, cs_ovf, cs_ops, cs_op,
                 hl, hl_hash, hl_op, hl_ops, pd_in, pd_ret, pd_out, ts_base,
                 ts_i, ts_j, ts_salt, mn_argv, mn_pc, mn_g, mn_opt, mn_start,
                 mn_cmd, mn_res, mn_exit, ex, ex_op, ex_ub>>
\* getline fails, or the stop_after break was taken; done.store(true, release)
reader_set_done ==
  /\ \/ rdpc = "run" /\ next_line > NumLines
     \/ rdpc = "break"
  /\ done' = TRUE
  /\ rdpc' = "exit"
  /\ UNCHANGED <<head_, tail_, data_, headCnt, tailCnt, ppc, p_head, p_next,
                 p_line, p_obs, p_seen, p_val, p_ret, cpc, c_tail, c_obs,
                 c_seen, c_out, c_ret, accepted, popped, cmd, has_jthread,
                 bucket_mode, merging, paused, workers_ended, stop_req,
                 reducer_stop, rings, next_line, shard, wpc, counted_pause,
                 item, locals, acc, global, dpc, finishing, rot,
                 bucket_start, snapshots, mpc, pop_started, pop_cleared,
                 rot_started, rot_cleared, input_ok, bucket_ok, stop_after,
                 processed, result, single, content, shard_of, emitted, bf,
                 bf_added, bf_h1, bf_h2, bf_pos, bf_op, bf_ops, cs, cs_true,
                 cs_col, cs_ovf, cs_ops, cs_op, hl, hl_hash, hl_op, hl_ops,
                 pd_in, pd_ret, pd_out, ts_base, ts_i, ts_j, ts_salt,
                 mn_argv, mn_pc, mn_g, mn_opt, mn_start, mn_cmd, mn_res,
                 mn_exit, ex, ex_op, ex_ub>>
\* ---- worker threads
\* if (merging->load(acquire)) { ... sleep; continue; } counted_pause = false
worker_check_merging(w) ==
  /\ wpc[w] = "check"
  /\ IF merging
       THEN /\ ~counted_pause[w]
            /\ wpc' = [wpc EXCEPT ![w] = "inc"]
            /\ counted_pause' = counted_pause
       ELSE /\ wpc' = [wpc EXCEPT ![w] = "pop"]
            /\ counted_pause' = [counted_pause EXCEPT ![w] = FALSE]
  /\ UNCHANGED <<head_, tail_, data_, headCnt, tailCnt, ppc, p_head, p_next,
                 p_line, p_obs, p_seen, p_val, p_ret, cpc, c_tail, c_obs,
                 c_seen, c_out, c_ret, accepted, popped, cmd, has_jthread,
                 bucket_mode, done, merging, paused, workers_ended, stop_req,
                 reducer_stop, rings, rdpc, next_line, shard, item, locals,
                 acc, global, dpc, finishing, rot, bucket_start, snapshots,
                 mpc, pop_started, pop_cleared, rot_started, rot_cleared,
                 input_ok, bucket_ok, stop_after, processed, result, single,
                 content, shard_of, emitted, bf, bf_added, bf_h1, bf_h2,
                 bf_pos, bf_op, bf_ops, cs, cs_true, cs_col, cs_ovf, cs_ops,
                 cs_op, hl, hl_hash, hl_op, hl_ops, pd_in, pd_ret, pd_out,
                 ts_base, ts_i, ts_j, ts_salt, mn_argv, mn_pc, mn_g, mn_opt,
                 mn_start, mn_cmd, mn_res, mn_exit, ex, ex_op, ex_ub>>
\* worker_inc_paused without the `continue`: falls through to the pop
worker_inc_paused_no_continue(w) ==
  /\ wpc[w] = "inc"
  /\ paused' = paused + 1
  /\ counted_pause' = [counted_pause EXCEPT ![w] = TRUE]
  /\ wpc' = [wpc EXCEPT ![w] = "pop"]
  /\ UNCHANGED <<head_, tail_, data_, headCnt, tailCnt, ppc, p_head, p_next,
                 p_line, p_obs, p_seen, p_val, p_ret, cpc, c_tail, c_obs,
                 c_seen, c_out, c_ret, accepted, popped, cmd, has_jthread,
                 bucket_mode, done, merging, workers_ended, stop_req,
                 reducer_stop, rings, rdpc, next_line, shard, item, locals,
                 acc, global, dpc, finishing, rot, bucket_start, snapshots,
                 mpc, pop_started, pop_cleared, rot_started, rot_cleared,
                 input_ok, bucket_ok, stop_after, processed, result, single,
                 content, shard_of, emitted, bf, bf_added, bf_h1, bf_h2,
                 bf_pos, bf_op, bf_ops, cs, cs_true, cs_col, cs_ovf, cs_ops,
                 cs_op, hl, hl_hash, hl_op, hl_ops, pd_in, pd_ret, pd_out,
                 ts_base, ts_i, ts_j, ts_salt, mn_argv, mn_pc, mn_g, mn_opt,
                 mn_start, mn_cmd, mn_res, mn_exit, ex, ex_op, ex_ub>>
\* paused->fetch_add(1, acq_rel); counted_pause = true; sleep; continue
worker_inc_paused(w) ==
  /\ wpc[w] = "inc"
  /\ paused' = paused + 1
  /\ counted_pause' = [counted_pause EXCEPT ![w] = TRUE]
  /\ wpc' = [wpc EXCEPT ![w] = "check"]
  /\ UNCHANGED <<head_, tail_, data_, headCnt, tailCnt, ppc, p_head, p_next,
                 p_line, p_obs, p_seen, p_val, p_ret, cpc, c_tail, c_obs,
                 c_seen, c_out, c_ret, accepted, popped, cmd, has_jthread,
                 bucket_mode, done, merging, workers_ended, stop_req,
                 reducer_stop, rings, rdpc, next_line, shard, item, locals,
                 acc, global, dpc, finishing, rot, bucket_start, snapshots,
                 mpc, pop_started, pop_cleared, rot_started, rot_cleared,
                 input_ok, bucket_ok, stop_after, processed, result, single,
                 content, shard_of, emitted, bf, bf_added, bf_h1, bf_h2,
                 bf_pos, bf_op, bf_ops, cs, cs_true, cs_col, cs_ovf, cs_ops,
                 cs_op, hl, hl_hash, hl_op, hl_ops, pd_in, pd_ret, pd_out,
                 ts_base, ts_i, ts_j, ts_salt, mn_argv, mn_pc, mn_g, mn_opt,
                 mn_start, mn_cmd, mn_res, mn_exit, ex, ex_op, ex_ub>>
\* ring.pop(item)
worker_pop(w) ==
  /\ wpc[w] = "pop"
  /\ IF rings[w] # << >>
       THEN /\ item' = [item EXCEPT ![w] = Head(rings[w])]
            /\ rings' = [rings EXCEPT ![w] = Tail(@)]
            /\ pop_started' = [pop_started EXCEPT ![Head(rings[w])] = rot_started]
            /\ pop_cleared' = [pop_cleared EXCEPT ![Head(rings[w])] = rot_cleared]
            /\ wpc' = [wpc EXCEPT ![w] = "add"]
       ELSE /\ wpc' = [wpc EXCEPT ![w] = "stopq"]
            /\ UNCHANGED <<item, rings, pop_started, pop_cleared>>
  /\ UNCHANGED <<head_, tail_, data_, headCnt, tailCnt, ppc, p_head, p_next,
                 p_line, p_obs, p_seen, p_val, p_ret, cpc, c_tail, c_obs,
                 c_seen, c_out, c_ret, accepted, popped, cmd, has_jthread,
                 bucket_mode, done, merging, paused, workers_ended, stop_req,
                 reducer_stop, rdpc, next_line, shard, counted_pause, locals,
                 acc, global, dpc, finishing, rot, bucket_start, snapshots,
                 mpc, rot_started, rot_cleared, input_ok, bucket_ok,
                 stop_after, processed, result, single, content, shard_of,
                 emitted, bf, bf_added, bf_h1, bf_h2, bf_pos, bf_op, bf_ops,
                 cs, cs_true, cs_col, cs_ovf, cs_ops, cs_op, hl, hl_hash,
                 hl_op, hl_ops, pd_in, pd_ret, pd_out, ts_base, ts_i, ts_j,
                 ts_salt, mn_argv, mn_pc, mn_g, mn_opt, mn_start, mn_cmd,
                 mn_res, mn_exit, ex, ex_op, ex_ub>>
\* (void)sk.add(item.data) / (void)sk.inc(item.data)
worker_add(w) ==
  /\ wpc[w] = "add"
  /\ cmd # "bloom"
  /\ locals' = [locals EXCEPT ![w].items = @ \cup {item[w]}]
  /\ wpc' = [wpc EXCEPT ![w] = LoopHead]
  /\ UNCHANGED <<head_, tail_, data_, headCnt, tailCnt, ppc, p_head, p_next,
                 p_line, p_obs, p_seen, p_val, p_ret, cpc, c_tail, c_obs,
                 c_seen, c_out, c_ret, accepted, popped, cmd, has_jthread,
                 bucket_mode, done, merging, paused, workers_ended, stop_req,
                 reducer_stop, rings, rdpc, next_line, shard, counted_pause,
                 item, acc, global, dpc, finishing, rot, bucket_start,
                 snapshots, mpc, pop_started, pop_cleared, rot_started,
                 rot_cleared, input_ok, bucket_ok, stop_after, processed,
                 result, single, content, shard_of, emitted, bf, bf_added,
                 bf_h1, bf_h2, bf_pos, bf_op, bf_ops, cs, cs_true, cs_col,
                 cs_ovf, cs_ops, cs_op, hl, hl_hash, hl_op, hl_ops, pd_in,
                 pd_ret, pd_out, ts_base, ts_i, ts_j, ts_salt, mn_argv,
                 mn_pc, mn_g, mn_opt, mn_start, mn_cmd, mn_res, mn_exit, ex,
                 ex_op, ex_ub>>
\* bloom worker_fn: mc = flt.might_contain(item.data); if (!mc.value())
\* { flt.add(item.data); lock; fputs(item.data); }
worker_dedup(w) ==
  /\ wpc[w] = "add"
  /\ cmd = "bloom"
  /\ \E mc \in might_contain(locals[w], item[w]) :
       IF mc
         THEN UNCHANGED <<locals, emitted>>
         ELSE /\ locals' = [locals EXCEPT ![w].items = @ \cup {item[w]}]
              /\ emitted' = Append(emitted, item[w])
  /\ wpc' = [wpc EXCEPT ![w] = LoopHead]
  /\ UNCHANGED <<head_, tail_, data_, headCnt, tailCnt, ppc, p_head, p_next,
                 p_line, p_obs, p_seen, p_val, p_ret, cpc, c_tail, c_obs,
                 c_seen, c_out, c_ret, accepted, popped, cmd, has_jthread,
                 bucket_mode, done, merging, paused, workers_ended, stop_req,
                 reducer_stop, rings, rdpc, next_line, shard, counted_pause,
                 item, acc, global, dpc, finishing, rot, bucket_start,
                 snapshots, mpc, pop_started, pop_cleared, rot_started,
                 rot_cleared, input_ok, bucket_ok, stop_after, processed,
                 result, single, content, shard_of, bf, bf_added, bf_h1,
                 bf_h2, bf_pos, bf_op, bf_ops, cs, cs_true, cs_col, cs_ovf,
                 cs_ops, cs_op, hl, hl_hash, hl_op, hl_ops, pd_in, pd_ret,
                 pd_out, ts_base, ts_i, ts_j, ts_salt, mn_argv, mn_pc, mn_g,
                 mn_opt, mn_start, mn_cmd, mn_res, mn_exit, ex, ex_op, ex_ub>>
\* else if (stopq()) break; else yield / sleep
worker_stopq(w) ==
  /\ wpc[w] = "stopq"
  /\ IF done \/ (has_jthread /\ stop_req[w])
       THEN wpc' = [wpc EXCEPT ![w] = "exit"]
       ELSE wpc' = [wpc EXCEPT ![w] = LoopHead]
  /\ UNCHANGED <<head_, tail_, data_, headCnt, tailCnt, ppc, p_head, p_next,
                 p_line, p_obs, p_seen, p_val, p_ret, cpc, c_tail, c_obs,
                 c_seen, c_out, c_ret, accepted, popped, cmd, has_jthread,
                 bucket_mode, done, merging, paused, workers_ended, stop_req,
                 reducer_stop, rings, rdpc, next_line, shard, counted_pause,
                 item, locals, acc, global, dpc, finishing, rot,
                 bucket_start, snapshots, mpc, pop_started, pop_cleared,
                 rot_started, rot_cleared, input_ok, bucket_ok, stop_after,
                 processed, result, single, content, shard_of, emitted, bf,
                 bf_added, bf_h1, bf_h2, bf_pos, bf_op, bf_ops, cs, cs_true,
                 cs_col, cs_ovf, cs_ops, cs_op, hl, hl_hash, hl_op, hl_ops,
                 pd_in, pd_ret, pd_out, ts_base, ts_i, ts_j, ts_salt,
                 mn_argv, mn_pc, mn_g, mn_opt, mn_start, mn_cmd, mn_res,
                 mn_exit, ex, ex_op, ex_ub>>
\* ---- main thread (cmd_hll / cmd_cms / cmd_bloom, num_workers >= 2)
\* for (wi...) spawn_worker(workers, ...): starts the next worker thread
main_spawn_worker ==
  /\ mpc = "spawn_workers"
  /\ \E w \in Workers :
       /\ wpc[w] = "unstarted"
       /\ \A v \in Workers : v < w => wpc[v] # "unstarted"
       /\ wpc' = [wpc EXCEPT ![w] = LoopHead]
       /\ mpc' = IF w < NumWorkers THEN "spawn_workers"
                 ELSE IF cmd = "bloom" THEN "b_open" ELSE "start_reader"
  /\ UNCHANGED <<head_, tail_, data_, headCnt, tailCnt, ppc, p_head, p_next,
                 p_line, p_obs, p_seen, p_val, p_ret, cpc, c_tail, c_obs,
                 c_seen, c_out, c_ret, accepted, popped, cmd, has_jthread,
                 bucket_mode, done, merging, paused, workers_ended, stop_req,
                 reducer_stop, rings, rdpc, next_line, shard, counted_pause,
                 item, locals, acc, global, dpc, finishing, rot,
                 bucket_start, snapshots, pop_started, pop_cleared,
                 rot_started, rot_cleared, input_ok, bucket_ok, stop_after,
                 processed, result, single, content, shard_of, emitted, bf,
                 bf_added, bf_h1, bf_h2, bf_pos, bf_op, bf_ops, cs, cs_true,
                 cs_col, cs_ovf, cs_ops, cs_op, hl, hl_hash, hl_op, hl_ops,
                 pd_in, pd_ret, pd_out, ts_base, ts_i, ts_j, ts_salt,
                 mn_argv, mn_pc, mn_g, mn_opt, mn_start, mn_cmd, mn_res,
                 mn_exit, ex, ex_op, ex_ub>>
\* ReaderThread reader = start_reader(...)
main_start_reader ==
  /\ mpc = "start_reader"
  /\ rdpc' = "open"
  /\ mpc' = IF bucket_mode THEN "start_reducer" ELSE "join_reader"
  /\ UNCHANGED <<head_, tail_, data_, headCnt, tailCnt, ppc, p_head, p_next,
                 p_line, p_obs, p_seen, p_val, p_ret, cpc, c_tail, c_obs,
                 c_seen, c_out, c_ret, accepted, popped, cmd, has_jthread,
                 bucket_mode, done, merging, paused, workers_ended, stop_req,
                 reducer_stop, rings, next_line, shard, wpc, counted_pause,
                 item, locals, acc, global, dpc, finishing, rot,
                 bucket_start, snapshots, pop_started, pop_cleared,
                 rot_started, rot_cleared, input_ok, bucket_ok, stop_after,
                 processed, result, single, content, shard_of, emitted, bf,
                 bf_added, bf_h1, bf_h2, bf_pos, bf_op, bf_ops, cs, cs_true,
                 cs_col, cs_ovf, cs_ops, cs_op, hl, hl_hash, hl_op, hl_ops,
                 pd_in, pd_ret, pd_out, ts_base, ts_i, ts_j, ts_salt,
                 mn_argv, mn_pc, mn_g, mn_opt, mn_start, mn_cmd, mn_res,
                 mn_exit, ex, ex_op, ex_ub>>
\* if (bucket_mode) reducer = start_reducer_*(...)
main_start_reducer ==
  /\ mpc = "start_reducer"
  /\ dpc' = "parse"
  /\ mpc' = "join_reader"
  /\ UNCHANGED <<head_, tail_, data_, headCnt, tailCnt, ppc, p_head, p_next,
                 p_line, p_obs, p_seen, p_val, p_ret, cpc, c_tail, c_obs,
                 c_seen, c_out, c_ret, accepted, popped, cmd, has_jthread,
                 bucket_mode, done, merging, paused, workers_ended, stop_req,
                 reducer_stop, rings, rdpc, next_line, shard, wpc,
                 counted_pause, item, locals, acc, global, finishing, rot,
                 bucket_start, snapshots, pop_started, pop_cleared,
                 rot_started, rot_cleared, input_ok, bucket_ok, stop_after,
                 processed, result, single, content, shard_of, emitted, bf,
                 bf_added, bf_h1, bf_h2, bf_pos, bf_op, bf_ops, cs, cs_true,
                 cs_col, cs_ovf, cs_ops, cs_op, hl, hl_hash, hl_op, hl_ops,
                 pd_in, pd_ret, pd_out, ts_base, ts_i, ts_j, ts_salt,
                 mn_argv, mn_pc, mn_g, mn_opt, mn_start, mn_cmd, mn_res,
                 mn_exit, ex, ex_op, ex_ub>>
\* cmd_bloom reads on the main thread, after the workers are started:
\* if (!open_input(...)) { done.store(true); join workers; return IOError; }
\* otherwise main runs the reader's loop itself and goes on when it ends
main_bloom_open ==
  /\ mpc = "b_open"
  /\ IF input_ok
       THEN rdpc' = "run" /\ mpc' = "join_reader" /\ done' = done
       ELSE rdpc' = rdpc /\ mpc' = "b_fail_join" /\ done' = TRUE
  /\ UNCHANGED <<head_, tail_, data_, headCnt, tailCnt, ppc, p_head, p_next,
                 p_line, p_obs, p_seen, p_val, p_ret, cpc, c_tail, c_obs,
                 c_seen, c_out, c_ret, accepted, popped, cmd, has_jthread,
                 bucket_mode, merging, paused, workers_ended, stop_req,
                 reducer_stop, rings, next_line, shard, wpc, counted_pause,
                 item, locals, acc, global, dpc, finishing, rot,
                 bucket_start, snapshots, pop_started, pop_cleared,
                 rot_started, rot_cleared, input_ok, bucket_ok, stop_after,
                 processed, result, single, content, shard_of, emitted, bf,
                 bf_added, bf_h1, bf_h2, bf_pos, bf_op, bf_ops, cs, cs_true,
                 cs_col, cs_ovf, cs_ops, cs_op, hl, hl_hash, hl_op, hl_ops,
                 pd_in, pd_ret, pd_out, ts_base, ts_i, ts_j, ts_salt,
                 mn_argv, mn_pc, mn_g, mn_opt, mn_start, mn_cmd, mn_res,
                 mn_exit, ex, ex_op, ex_ub>>
\* cmd_bloom after a failed open: for (auto& w : workers) w.join(); return IOError
main_bloom_fail_join ==
  /\ mpc = "b_fail_join"
  /\ \A w \in Workers : wpc[w] = "exit"
  /\ result' = "IOError"
  /\ mpc' = "returned"
  /\ UNCHANGED <<head_, tail_, data_, headCnt, tailCnt, ppc, p_head, p_next,
                 p_line, p_obs, p_seen, p_val, p_ret, cpc, c_tail, c_obs,
                 c_seen, c_out, c_ret, accepted, popped, cmd, has_jthread,
                 bucket_mode, done, merging, paused, workers_ended, stop_req,
                 reducer_stop, rings, rdpc, next_line, shard, wpc,
                 counted_pause, item, locals, acc, global, dpc, finishing,
                 rot, bucket_start, snapshots, pop_started, pop_cleared,
                 rot_started, rot_cleared, input_ok, bucket_ok, stop_after,
                 processed, single, content, shard_of, emitted, bf, bf_added,
                 bf_h1, bf_h2, bf_pos, bf_op, bf_ops, cs, cs_true, cs_col,
                 cs_ovf, cs_ops, cs_op, hl, hl_hash, hl_op, hl_ops, pd_in,
                 pd_ret, pd_out, ts_base, ts_i, ts_j, ts_salt, mn_argv,
                 mn_pc, mn_g, mn_opt, mn_start, mn_cmd, mn_res, mn_exit, ex,
                 ex_op, ex_ub>>
\* reader.join() (cmd_bloom: the read loop on the main thread has ended)
main_join_reader ==
  /\ mpc = "join_reader"
  /\ rdpc = "exit"
  /\ mpc' = IF has_jthread THEN "request_stop" ELSE "join_workers"
  /\ UNCHANGED <<head_, tail_, data_, headCnt, tailCnt, ppc, p_head, p_next,
                 p_line, p_obs, p_seen, p_val, p_ret, cpc, c_tail, c_obs,
                 c_seen, c_out, c_ret, accepted, popped, cmd, has_jthread,
                 bucket_mode, done, merging, paused, workers_ended, stop_req,
                 reducer_stop, rings, rdpc, next_line, shard, wpc,
                 counted_pause, item, locals, acc, global, dpc, finishing,
                 rot, bucket_start, snapshots, pop_started, pop_cleared,
                 rot_started, rot_cleared, input_ok, bucket_ok, stop_after,
                 processed, result, single, content, shard_of, emitted, bf,
                 bf_added, bf_h1, bf_h2, bf_pos, bf_op, bf_ops, cs, cs_true,
                 cs_col, cs_ovf, cs_ops, cs_op, hl, hl_hash, hl_op, hl_ops,
                 pd_in, pd_ret, pd_out, ts_base, ts_i, ts_j, ts_salt,
                 mn_argv, mn_pc, mn_g, mn_opt, mn_start, mn_cmd, mn_res,
                 mn_exit, ex, ex_op, ex_ub>>
\* jthread build: for (auto& w : workers) w.request_stop(); only cmd_hll goes
\* on to join the workers
main_request_stop ==
  /\ mpc = "request_stop"
  /\ stop_req' = [w \in Workers |-> TRUE]
  /\ mpc' = IF cmd = "hll" THEN "join_workers"
            ELSE IF bucket_mode THEN "workers_ended" ELSE "merge"
  /\ UNCHANGED <<head_, tail_, data_, headCnt, tailCnt, ppc, p_head, p_next,
                 p_line, p_obs, p_seen, p_val, p_ret, cpc, c_tail, c_obs,
                 c_seen, c_out, c_ret, accepted, popped, cmd, has_jthread,
                 bucket_mode, done, merging, paused, workers_ended,
                 reducer_stop, rings, rdpc, next_line, shard, wpc,
                 counted_pause, item, locals, acc, global, dpc, finishing,
                 rot, bucket_start, snapshots, pop_started, pop_cleared,
                 rot_started, rot_cleared, input_ok, bucket_ok, stop_after,
                 processed, result, single, content, shard_of, emitted, bf,
                 bf_added, bf_h1, bf_h2, bf_pos, bf_op, bf_ops, cs, cs_true,
                 cs_col, cs_ovf, cs_ops, cs_op, hl, hl_hash, hl_op, hl_ops,
                 pd_in, pd_ret, pd_out, ts_base, ts_i, ts_j, ts_salt,
                 mn_argv, mn_pc, mn_g, mn_opt, mn_start, mn_cmd, mn_res,
                 mn_exit, ex, ex_op, ex_ub>>
\* for (auto& w : workers) w.join()
main_join_workers ==
  /\ mpc = "join_workers"
  /\ \A w \in Workers : wpc[w] = "exit"
  /\ mpc' = IF cmd = "bloom" THEN "dtor"
            ELSE IF cmd = "cms" /\ ~bucket_mode THEN "merge" ELSE "workers_ended"
  /\ result' = IF cmd = "bloom" THEN "Success" ELSE result
  /\ UNCHANGED <<head_, tail_, data_, headCnt, tailCnt, ppc, p_head, p_next,
                 p_line, p_obs, p_seen, p_val, p_ret, cpc, c_tail, c_obs,
                 c_seen, c_out, c_ret, accepted, popped, cmd, has_jthread,
                 bucket_mode, done, merging, paused, workers_ended, stop_req,
                 reducer_stop, rings, rdpc, next_line, shard, wpc,
                 counted_pause, item, locals, acc, global, dpc, finishing,
                 rot, bucket_start, snapshots, pop_started, pop_cleared,
                 rot_started, rot_cleared, input_ok, bucket_ok, stop_after,
                 processed, single, content, shard_of, emitted, bf, bf_added,
                 bf_h1, bf_h2, bf_pos, bf_op, bf_ops, cs, cs_true, cs_col,
                 cs_ovf, cs_ops, cs_op, hl, hl_hash, hl_op, hl_ops, pd_in,
                 pd_ret, pd_out, ts_base, ts_i, ts_j, ts_salt, mn_argv,
                 mn_pc, mn_g, mn_opt, mn_start, mn_cmd, mn_res, mn_exit, ex,
                 ex_op, ex_ub>>
\* workers_ended.store(true, release)
main_store_workers_ended ==
  /\ mpc = "workers_ended"
  /\ workers_ended' = TRUE
  /\ mpc' = IF ~bucket_mode THEN "merge"
            ELSE IF cmd = "cms" /\ has_jthread THEN "reducer_request_stop"
            ELSE "join_reducer"
  /\ UNCHANGED <<head_, tail_, data_, headCnt, tailCnt, ppc, p_head, p_next,
                 p_line, p_obs, p_seen, p_val, p_ret, cpc, c_tail, c_obs,
                 c_seen, c_out, c_ret, accepted, popped, cmd, has_jthread,
                 bucket_mode, done, merging, paused, stop_req, reducer_stop,
                 rings, rdpc, next_line, shard, wpc, counted_pause, item,
                 locals, acc, global, dpc, finishing, rot, bucket_start,
                 snapshots, pop_started, pop_cleared, rot_started,
                 rot_cleared, input_ok, bucket_ok, stop_after, processed,
                 result, single, content, shard_of, emitted, bf, bf_added,
                 bf_h1, bf_h2, bf_pos, bf_op, bf_ops, cs, cs_true, cs_col,
                 cs_ovf, cs_ops, cs_op, hl, hl_hash, hl_op, hl_ops, pd_in,
                 pd_ret, pd_out, ts_base, ts_i, ts_j, ts_salt, mn_argv,
                 mn_pc, mn_g, mn_opt, mn_start, mn_cmd, mn_res, mn_exit, ex,
                 ex_op, ex_ub>>
\* cmd_cms, jthread build: reducer.request_stop()
main_reducer_request_stop ==
  /\ mpc = "reducer_request_stop"
  /\ reducer_stop' = TRUE
  /\ mpc' = "join_reducer"
  /\ UNCHANGED <<head_, tail_, data_, headCnt, tailCnt, ppc, p_head, p_next,
                 p_line, p_obs, p_seen, p_val, p_ret, cpc, c_tail, c_obs,
                 c_seen, c_out, c_ret, accepted, popped, cmd, has_jthread,
                 bucket_mode, done, merging, paused, workers_ended, stop_req,
                 rings, rdpc, next_line, shard, wpc, counted_pause, item,
                 locals, acc, global, dpc, finishing, rot, bucket_start,
                 snapshots, pop_started, pop_cleared, rot_started,
                 rot_cleared, input_ok, bucket_ok, stop_after, processed,
                 result, single, content, shard_of, emitted, bf, bf_added,
                 bf_h1, bf_h2, bf_pos, bf_op, bf_ops, cs, cs_true, cs_col,
                 cs_ovf, cs_ops, cs_op, hl, hl_hash, hl_op, hl_ops, pd_in,
                 pd_ret, pd_out, ts_base, ts_i, ts_j, ts_salt, mn_argv,
                 mn_pc, mn_g, mn_opt, mn_start, mn_cmd, mn_res, mn_exit, ex,
                 ex_op, ex_ub>>
\* reducer.join(); return Success
main_join_reducer ==
  /\ mpc = "join_reducer"
  /\ dpc = "exit"
  /\ result' = "Success"
  /\ mpc' = "dtor"
  /\ UNCHANGED <<head_, tail_, data_, headCnt, tailCnt, ppc, p_head, p_next,
                 p_line, p_obs, p_seen, p_val, p_ret, cpc, c_tail, c_obs,
                 c_seen, c_out, c_ret, accepted, popped, cmd, has_jthread,
                 bucket_mode, done, merging, paused, workers_ended, stop_req,
                 reducer_stop, rings, rdpc, next_line, shard, wpc,
                 counted_pause, item, locals, acc, global, dpc, finishing,
                 rot, bucket_start, snapshots, pop_started, pop_cleared,
                 rot_started, rot_cleared, input_ok, bucket_ok, stop_after,
                 processed, single, content, shard_of, emitted, bf, bf_added,
                 bf_h1, bf_h2, bf_pos, bf_op, bf_ops, cs, cs_true, cs_col,
                 cs_ovf, cs_ops, cs_op, hl, hl_hash, hl_op, hl_ops, pd_in,
                 pd_ret, pd_out, ts_base, ts_i, ts_j, ts_salt, mn_argv,
                 mn_pc, mn_g, mn_opt, mn_start, mn_cmd, mn_res, mn_exit, ex,
                 ex_op, ex_ub>>
\* for (auto& tl : locals) (void)global.merge(tl); output; return Success
main_merge ==
  /\ mpc = "merge"
  /\ global' = merge_all(global, locals, 1)
  /\ result' = "Success"
  /\ mpc' = "dtor"
  /\ UNCHANGED <<head_, tail_, data_, headCnt, tailCnt, ppc, p_head, p_next,
                 p_line, p_obs, p_seen, p_val, p_ret, cpc, c_tail, c_obs,
                 c_seen, c_out, c_ret, accepted, popped, cmd, has_jthread,
                 bucket_mode, done, merging, paused, workers_ended, stop_req,
                 reducer_stop, rings, rdpc, next_line, shard, wpc,
                 counted_pause, item, locals, acc, dpc, finishing, rot,
                 bucket_start, snapshots, pop_started, pop_cleared,
                 rot_started, rot_cleared, input_ok, bucket_ok, stop_after,
                 processed, single, content, shard_of, emitted, bf, bf_added,
                 bf_h1, bf_h2, bf_pos, bf_op, bf_ops, cs, cs_true, cs_col,
                 cs_ovf, cs_ops, cs_op, hl, hl_hash, hl_op, hl_ops, pd_in,
                 pd_ret, pd_out, ts_base, ts_i, ts_j, ts_salt, mn_argv,
                 mn_pc, mn_g, mn_opt, mn_start, mn_cmd, mn_res, mn_exit, ex,
                 ex_op, ex_ub>>
\* leaving the function destroys `workers`: a jthread still joinable is
\* stopped and joined by its destructor
main_return ==
  /\ mpc = "dtor"
  /\ has_jthread => \A w \in Workers : wpc[w] = "exit"
  /\ mpc' = "returned"
  /\ UNCHANGED <<head_, tail_, data_, headCnt, tailCnt, ppc, p_head, p_next,
                 p_line, p_obs, p_seen, p_val, p_ret, cpc, c_tail, c_obs,
                 c_seen, c_out, c_ret, accepted, popped, cmd, has_jthread,
                 bucket_mode, done, merging, paused, workers_ended, stop_req,
                 reducer_stop, rings, rdpc, next_line, shard, wpc,
                 counted_pause, item, locals, acc, global, dpc, finishing,
                 rot, bucket_start, snapshots, pop_started, pop_cleared,
                 rot_started, rot_cleared, input_ok, bucket_ok, stop_after,
                 processed, result, single, content, shard_of, emitted, bf,
                 bf_added, bf_h1, bf_h2, bf_pos, bf_op, bf_ops, cs, cs_true,
                 cs_col, cs_ovf, cs_ops, cs_op, hl, hl_hash, hl_op, hl_ops,
                 pd_in, pd_ret, pd_out, ts_base, ts_i, ts_j, ts_salt,
                 mn_argv, mn_pc, mn_g, mn_opt, mn_start, mn_cmd, mn_res,
                 mn_exit, ex, ex_op, ex_ub>>
\* ---- single-worker path (cmd_hll, cmd_bloom with num_workers <= 1)
\* if (!open_input(g, file_in, in)) return IOError
single_open ==
  /\ mpc = "s_open"
  /\ IF input_ok
       THEN /\ mpc' = IF bucket_mode THEN "s_parse" ELSE "s_loop"
            /\ result' = result
       ELSE /\ mpc' = "returned"
            /\ result' = "IOError"
  /\ UNCHANGED <<head_, tail_, data_, headCnt, tailCnt, ppc, p_head, p_next,
                 p_line, p_obs, p_seen, p_val, p_ret, cpc, c_tail, c_obs,
                 c_seen, c_out, c_ret, accepted, popped, cmd, has_jthread,
                 bucket_mode, done, merging, paused, workers_ended, stop_req,
                 reducer_stop, rings, rdpc, next_line, shard, wpc,
                 counted_pause, item, locals, acc, global, dpc, finishing,
                 rot, bucket_start, snapshots, pop_started, pop_cleared,
                 rot_started, rot_cleared, input_ok, bucket_ok, stop_after,
                 processed, single, content, shard_of, emitted, bf, bf_added,
                 bf_h1, bf_h2, bf_pos, bf_op, bf_ops, cs, cs_true, cs_col,
                 cs_ovf, cs_ops, cs_op, hl, hl_hash, hl_op, hl_ops, pd_in,
                 pd_ret, pd_out, ts_base, ts_i, ts_j, ts_salt, mn_argv,
                 mn_pc, mn_g, mn_opt, mn_start, mn_cmd, mn_res, mn_exit, ex,
                 ex_op, ex_ub>>
\* run_hll_single_bucketed: if (!parse_duration(...)) return ConfigError
single_parse ==
  /\ mpc = "s_parse"
  /\ IF bucket_ok
       THEN /\ mpc' = "s_loop"
            /\ result' = result
       ELSE /\ mpc' = "returned"
            /\ result' = "ConfigError"
  /\ UNCHANGED <<head_, tail_, data_, headCnt, tailCnt, ppc, p_head, p_next,
                 p_line, p_obs, p_seen, p_val, p_ret, cpc, c_tail, c_obs,
                 c_seen, c_out, c_ret, accepted, popped, cmd, has_jthread,
                 bucket_mode, done, merging, paused, workers_ended, stop_req,
                 reducer_stop, rings, rdpc, next_line, shard, wpc,
                 counted_pause, item, locals, acc, global, dpc, finishing,
                 rot, bucket_start, snapshots, pop_started, pop_cleared,
                 rot_started, rot_cleared, input_ok, bucket_ok, stop_after,
                 processed, single, content, shard_of, emitted, bf, bf_added,
                 bf_h1, bf_h2, bf_pos, bf_op, bf_ops, cs, cs_true, cs_col,
                 cs_ovf, cs_ops, cs_op, hl, hl_hash, hl_op, hl_ops, pd_in,
                 pd_ret, pd_out, ts_base, ts_i, ts_j, ts_salt, mn_argv,
                 mn_pc, mn_g, mn_opt, mn_start, mn_cmd, mn_res, mn_exit, ex,
                 ex_op, ex_ub>>
\* one iteration of the getline loop: hll adds the line (bucketed: after
\* flush_bucket when now >= bucket_end), bloom tests, adds and prints it;
\* then the stop_after test
single_line ==
  /\ mpc = "s_loop"
  /\ next_line <= NumLines
  /\ IF cmd = "bloom"
       THEN /\ \E mc \in might_contain(global, next_line) :
                 IF mc
                   THEN UNCHANGED <<global, emitted>>
                   ELSE /\ global' = [global EXCEPT !.items = @ \cup {next_line}]
                        /\ emitted' = Append(emitted, next_line)
            /\ UNCHANGED <<acc, snapshots, bucket_start, rot>>
       ELSE IF ~bucket_mode
       THEN /\ global' = [global EXCEPT !.items = @ \cup {next_line}]
            /\ UNCHANGED <<acc, snapshots, bucket_start, rot, emitted>>
       ELSE /\ \E time_up \in BOOLEAN :
                 /\ time_up => rot < MaxRotations
                 /\ IF time_up
                      THEN /\ snapshots' = Append(snapshots,
                                  [ts |-> bucket_start, items |-> acc.items])
                           /\ acc' = [make_sketch(g_hash) EXCEPT !.items = {next_line}]
                           /\ bucket_start' = bucket_start + 1
                           /\ rot' = rot + 1
                      ELSE /\ acc' = [acc EXCEPT !.items = @ \cup {next_line}]
                           /\ UNCHANGED <<snapshots, bucket_start, rot>>
            /\ UNCHANGED <<global, emitted>>
  /\ next_line' = next_line + 1
  /\ processed' = IF stop_after # 0 THEN processed + 1 ELSE processed
  /\ mpc' = IF stop_after # 0 /\ processed' >= stop_after THEN "s_finish" ELSE "s_loop"
  /\ UNCHANGED <<head_, tail_, data_, headCnt, tailCnt, ppc, p_head, p_next,
                 p_line, p_obs, p_seen, p_val, p_ret, cpc, c_tail, c_obs,
                 c_seen, c_out, c_ret, accepted, popped, cmd, has_jthread,
                 bucket_mode, done, merging, paused, workers_ended, stop_req,
                 reducer_stop, rings, rdpc, shard, wpc, counted_pause, item,
                 locals, dpc, finishing, pop_started, pop_cleared,
                 rot_started, rot_cleared, input_ok, bucket_ok, stop_after,
                 result, single, content, shard_of, bf, bf_added, bf_h1,
                 bf_h2, bf_pos, bf_op, bf_ops, cs, cs_true, cs_col, cs_ovf,
                 cs_ops, cs_op, hl, hl_hash, hl_op, hl_ops, pd_in, pd_ret,
                 pd_out, ts_base, ts_i, ts_j, ts_salt, mn_argv, mn_pc, mn_g,
                 mn_opt, mn_start, mn_cmd, mn_res, mn_exit, ex, ex_op, ex_ub>>
\* getline fails
single_eof ==
  /\ mpc = "s_loop"
  /\ next_line > NumLines
  /\ mpc' = "s_finish"
  /\ UNCHANGED <<head_, tail_, data_, headCnt, tailCnt, ppc, p_head, p_next,
                 p_line, p_obs, p_seen, p_val, p_ret, cpc, c_tail, c_obs,
                 c_seen, c_out, c_ret, accepted, popped, cmd, has_jthread,
                 bucket_mode, done, merging, paused, workers_ended, stop_req,
                 reducer_stop, rings, rdpc, next_line, shard, wpc,
                 counted_pause, item, locals, acc, global, dpc, finishing,
                 rot, bucket_start, snapshots, pop_started, pop_cleared,
                 rot_started, rot_cleared, input_ok, bucket_ok, stop_after,
                 processed, result, single, content, shard_of, emitted, bf,
                 bf_added, bf_h1, bf_h2, bf_pos, bf_op, bf_ops, cs, cs_true,
                 cs_col, cs_ovf, cs_ops, cs_op, hl, hl_hash, hl_op, hl_ops,
                 pd_in, pd_ret, pd_out, ts_base, ts_i, ts_j, ts_salt,
                 mn_argv, mn_pc, mn_g, mn_opt, mn_start, mn_cmd, mn_res,
                 mn_exit, ex, ex_op, ex_ub>>
\* after the loop: print the estimate / flush_bucket(bucket_start); Success
single_finish ==
  /\ mpc = "s_finish"
  /\ IF cmd = "hll" /\ bucket_mode
       THEN /\ snapshots' = Append(snapshots,
                   [ts |-> bucket_start, items |-> acc.items])
            /\ acc' = make_sketch(g_hash)
       ELSE UNCHANGED <<snapshots, acc>>
  /\ result' = "Success"
  /\ mpc' = "returned"
  /\ UNCHANGED <<head_, tail_, data_, headCnt, tailCnt, ppc, p_head, p_next,
                 p_line, p_obs, p_seen, p_val, p_ret, cpc, c_tail, c_obs,
                 c_seen, c_out, c_ret, accepted, popped, cmd, has_jthread,
                 bucket_mode, done, merging, paused, workers_ended, stop_req,
                 reducer_stop, rings, rdpc, next_line, shard, wpc,
                 counted_pause, item, locals, global, dpc, finishing, rot,
                 bucket_start, pop_started, pop_cleared, rot_started,
                 rot_cleared, input_ok, bucket_ok, stop_after, processed,
                 single, content, shard_of, emitted, bf, bf_added, bf_h1,
                 bf_h2, bf_pos, bf_op, bf_ops, cs, cs_true, cs_col, cs_ovf,
                 cs_ops, cs_op, hl, hl_hash, hl_op, hl_ops, pd_in, pd_ret,
                 pd_out, ts_base, ts_i, ts_j, ts_salt, mn_argv, mn_pc, mn_g,
                 mn_opt, mn_start, mn_cmd, mn_res, mn_exit, ex, ex_op, ex_ub>>
\* ---- reducer thread (start_reducer_hll / start_reducer_cms)
\* if (!parse_duration(g.bucket, bucket_ns)) { fputs(...); return; }
reducer_parse ==
  /\ dpc = "parse"
  /\ dpc' = IF bucket_ok THEN LoopStart ELSE "exit"
  /\ UNCHANGED <<head_, tail_, data_, headCnt, tailCnt, ppc, p_head, p_next,
                 p_line, p_obs, p_seen, p_val, p_ret, cpc, c_tail, c_obs,
                 c_seen, c_out, c_ret, accepted, popped, cmd, has_jthread,
                 bucket_mode, done, merging, paused, workers_ended, stop_req,
                 reducer_stop, rings, rdpc, next_line, shard, wpc,
                 counted_pause, item, locals, acc, global, finishing, rot,
                 bucket_start, snapshots, mpc, pop_started, pop_cleared,
                 rot_started, rot_cleared, input_ok, bucket_ok, stop_after,
                 processed, result, single, content, shard_of, emitted, bf,
                 bf_added, bf_h1, bf_h2, bf_pos, bf_op, bf_ops, cs, cs_true,
                 cs_col, cs_ovf, cs_ops, cs_op, hl, hl_hash, hl_op, hl_ops,
                 pd_in, pd_ret, pd_out, ts_base, ts_i, ts_j, ts_salt,
                 mn_argv, mn_pc, mn_g, mn_opt, mn_start, mn_cmd, mn_res,
                 mn_exit, ex, ex_op, ex_ub>>
\* jthread build: while (!st.stop_requested())
reducer_loop_test ==
  /\ dpc = "loop"
  /\ dpc' = IF reducer_stop THEN "exit" ELSE "decide"
  /\ UNCHANGED <<head_, tail_, data_, headCnt, tailCnt, ppc, p_head, p_next,
                 p_line, p_obs, p_seen, p_val, p_ret, cpc, c_tail, c_obs,
                 c_seen, c_out, c_ret, accepted, popped, cmd, has_jthread,
                 bucket_mode, done, merging, paused, workers_ended, stop_req,
                 reducer_stop, rings, rdpc, next_line, shard, wpc,
                 counted_pause, item, locals, acc, global, finishing, rot,
                 bucket_start, snapshots, mpc, pop_started, pop_cleared,
                 rot_started, rot_cleared, input_ok, bucket_ok, stop_after,
                 processed, result, single, content, shard_of, emitted, bf,
                 bf_added, bf_h1, bf_h2, bf_pos, bf_op, bf_ops, cs, cs_true,
                 cs_col, cs_ovf, cs_ops, cs_op, hl, hl_hash, hl_op, hl_ops,
                 pd_in, pd_ret, pd_out, ts_base, ts_i, ts_j, ts_salt,
                 mn_argv, mn_pc, mn_g, mn_opt, mn_start, mn_cmd, mn_res,
                 mn_exit, ex, ex_op, ex_ub>>
\* sleep; now >= bucket_end || (done && workers_ended); if (!need_rotate) continue
reducer_decide ==
  /\ dpc = "decide"
  /\ \E time_up \in BOOLEAN :
       LET fin == done /\ workers_ended
       IN  /\ time_up => rot < MaxRotations
           /\ rot' = IF time_up THEN rot + 1 ELSE rot
           /\ IF ~(time_up \/ fin)
                THEN /\ dpc' = LoopStart
                     /\ UNCHANGED <<finishing, rot_started>>
                ELSE /\ finishing' = fin
                     /\ IF cmd = "hll" /\ fin
                          THEN /\ dpc' = "merge"
                               /\ rot_started' = rot_started + 1
                          ELSE /\ dpc' = "set_merging"
                               /\ rot_started' = rot_started
  /\ UNCHANGED <<head_, tail_, data_, headCnt, tailCnt, ppc, p_head, p_next,
                 p_line, p_obs, p_seen, p_val, p_ret, cpc, c_tail, c_obs,
                 c_seen, c_out, c_ret, accepted, popped, cmd, has_jthread,
                 bucket_mode, done, merging, paused, workers_ended, stop_req,
                 reducer_stop, rings, rdpc, next_line, shard, wpc,
                 counted_pause, item, locals, acc, global, bucket_start,
                 snapshots, mpc, pop_started, pop_cleared, rot_cleared,
                 input_ok, bucket_ok, stop_after, processed, result, single,
                 content, shard_of, emitted, bf, bf_added, bf_h1, bf_h2,
                 bf_pos, bf_op, bf_ops, cs, cs_true, cs_col, cs_ovf, cs_ops,
                 cs_op, hl, hl_hash, hl_op, hl_ops, pd_in, pd_ret, pd_out,
                 ts_base, ts_i, ts_j, ts_salt, mn_argv, mn_pc, mn_g, mn_opt,
                 mn_start, mn_cmd, mn_res, mn_exit, ex, ex_op, ex_ub>>
\* merging.store(true, release)
reducer_set_merging ==
  /\ dpc = "set_merging"
  /\ merging' = TRUE
  /\ rot_started' = rot_started + 1
  /\ dpc' = "wait"
  /\ UNCHANGED <<head_, tail_, data_, headCnt, tailCnt, ppc, p_head, p_next,
                 p_line, p_obs, p_seen, p_val, p_ret, cpc, c_tail, c_obs,
                 c_seen, c_out, c_ret, accepted, popped, cmd, has_jthread,
                 bucket_mode, done, paused, workers_ended, stop_req,
                 reducer_stop, rings, rdpc, next_line, shard, wpc,
                 counted_pause, item, locals, acc, global, finishing, rot,
                 bucket_start, snapshots, mpc, pop_started, pop_cleared,
                 rot_cleared, input_ok, bucket_ok, stop_after, processed,
                 result, single, content, shard_of, emitted, bf, bf_added,
                 bf_h1, bf_h2, bf_pos, bf_op, bf_ops, cs, cs_true, cs_col,
                 cs_ovf, cs_ops, cs_op, hl, hl_hash, hl_op, hl_ops, pd_in,
                 pd_ret, pd_out, ts_base, ts_i, ts_j, ts_salt, mn_argv,
                 mn_pc, mn_g, mn_opt, mn_start, mn_cmd, mn_res, mn_exit, ex,
                 ex_op, ex_ub>>
\* reducer_wait leaving the loop as soon as one worker has paused
reducer_wait_one_paused ==
  /\ dpc = "wait"
  /\ paused >= 1
  /\ dpc' = "merge"
  /\ UNCHANGED <<head_, tail_, data_, headCnt, tailCnt, ppc, p_head, p_next,
                 p_line, p_obs, p_seen, p_val, p_ret, cpc, c_tail, c_obs,
                 c_seen, c_out, c_ret, accepted, popped, cmd, has_jthread,
                 bucket_mode, done, merging, paused, workers_ended, stop_req,
                 reducer_stop, rings, rdpc, next_line, shard, wpc,
                 counted_pause, item, locals, acc, global, finishing, rot,
                 bucket_start, snapshots, mpc, pop_started, pop_cleared,
                 rot_started, rot_cleared, input_ok, bucket_ok, stop_after,
                 processed, result, single, content, shard_of, emitted, bf,
                 bf_added, bf_h1, bf_h2, bf_pos, bf_op, bf_ops, cs, cs_true,
                 cs_col, cs_ovf, cs_ops, cs_op, hl, hl_hash, hl_op, hl_ops,
                 pd_in, pd_ret, pd_out, ts_base, ts_i, ts_j, ts_salt,
                 mn_argv, mn_pc, mn_g, mn_opt, mn_start, mn_cmd, mn_res,
                 mn_exit, ex, ex_op, ex_ub>>
\* while (paused.load(acquire) < num_workers) sleep
reducer_wait ==
  /\ dpc = "wait"
  /\ paused >= NumWorkers
  /\ dpc' = "merge"
  /\ UNCHANGED <<head_, tail_, data_, headCnt, tailCnt, ppc, p_head, p_next,
                 p_line, p_obs, p_seen, p_val, p_ret, cpc, c_tail, c_obs,
                 c_seen, c_out, c_ret, accepted, popped, cmd, has_jthread,
                 bucket_mode, done, merging, paused, workers_ended, stop_req,
                 reducer_stop, rings, rdpc, next_line, shard, wpc,
                 counted_pause, item, locals, acc, global, finishing, rot,
                 bucket_start, snapshots, mpc, pop_started, pop_cleared,
                 rot_started, rot_cleared, input_ok, bucket_ok, stop_after,
                 processed, result, single, content, shard_of, emitted, bf,
                 bf_added, bf_h1, bf_h2, bf_pos, bf_op, bf_ops, cs, cs_true,
                 cs_col, cs_ovf, cs_ops, cs_op, hl, hl_hash, hl_op, hl_ops,
                 pd_in, pd_ret, pd_out, ts_base, ts_i, ts_j, ts_salt,
                 mn_argv, mn_pc, mn_g, mn_opt, mn_start, mn_cmd, mn_res,
                 mn_exit, ex, ex_op, ex_ub>>
\* for (auto& tl : locals) (void)acc.merge(tl); emit the snapshot
reducer_merge ==
  /\ dpc = "merge"
  /\ acc' = merge_all(acc, locals, 1)
  /\ snapshots' = Append(snapshots, [ts |-> bucket_start, items |-> acc'.items])
  /\ dpc' = "reset"
  /\ UNCHANGED <<head_, tail_, data_, headCnt, tailCnt, ppc, p_head, p_next,
                 p_line, p_obs, p_seen, p_val, p_ret, cpc, c_tail, c_obs,
                 c_seen, c_out, c_ret, accepted, popped, cmd, has_jthread,
                 bucket_mode, done, merging, paused, workers_ended, stop_req,
                 reducer_stop, rings, rdpc, next_line, shard, wpc,
                 counted_pause, item, locals, global, finishing, rot,
                 bucket_start, mpc, pop_started, pop_cleared, rot_started,
                 rot_cleared, input_ok, bucket_ok, stop_after, processed,
                 result, single, content, shard_of, emitted, bf, bf_added,
                 bf_h1, bf_h2, bf_pos, bf_op, bf_ops, cs, cs_true, cs_col,
                 cs_ovf, cs_ops, cs_op, hl, hl_hash, hl_op, hl_ops, pd_in,
                 pd_ret, pd_out, ts_base, ts_i, ts_j, ts_salt, mn_argv,
                 mn_pc, mn_g, mn_opt, mn_start, mn_cmd, mn_res, mn_exit, ex,
                 ex_op, ex_ub>>
\* reducer_reset that leaves the accumulator as it is
reducer_reset_keeps_acc ==
  /\ dpc = "reset"
  /\ locals' = [w \in Workers |-> make_sketch(locals[w].hash_cfg)]
  /\ dpc' = IF cmd = "hll" /\ finishing THEN "exit" ELSE "clear_paused"
  /\ UNCHANGED <<head_, tail_, data_, headCnt, tailCnt, ppc, p_head, p_next,
                 p_line, p_obs, p_seen, p_val, p_ret, cpc, c_tail, c_obs,
                 c_seen, c_out, c_ret, accepted, popped, cmd, has_jthread,
                 bucket_mode, done, merging, paused, workers_ended, stop_req,
                 reducer_stop, rings, rdpc, next_line, shard, wpc,
                 counted_pause, item, acc, global, finishing, rot,
                 bucket_start, snapshots, mpc, pop_started, pop_cleared,
                 rot_started, rot_cleared, input_ok, bucket_ok, stop_after,
                 processed, result, single, content, shard_of, emitted, bf,
                 bf_added, bf_h1, bf_h2, bf_pos, bf_op, bf_ops, cs, cs_true,
                 cs_col, cs_ovf, cs_ops, cs_op, hl, hl_hash, hl_op, hl_ops,
                 pd_in, pd_ret, pd_out, ts_base, ts_i, ts_j, ts_salt,
                 mn_argv, mn_pc, mn_g, mn_opt, mn_start, mn_cmd, mn_res,
                 mn_exit, ex, ex_op, ex_ub>>
\* every local and the accumulator become fresh sketches with their own
\* hash config; the hll reducer leaves here when finishing
reducer_reset ==
  /\ dpc = "reset"
  /\ locals' = [w \in Workers |-> make_sketch(locals[w].hash_cfg)]
  /\ acc' = make_sketch(acc.hash_cfg)
  /\ dpc' = IF cmd = "hll" /\ finishing THEN "exit" ELSE "clear_paused"
  /\ UNCHANGED <<head_, tail_, data_, headCnt, tailCnt, ppc, p_head, p_next,
                 p_line, p_obs, p_seen, p_val, p_ret, cpc, c_tail, c_obs,
                 c_seen, c_out, c_ret, accepted, popped, cmd, has_jthread,
                 bucket_mode, done, merging, paused, workers_ended, stop_req,
                 reducer_stop, rings, rdpc, next_line, shard, wpc,
                 counted_pause, item, global, finishing, rot, bucket_start,
                 snapshots, mpc, pop_started, pop_cleared, rot_started,
                 rot_cleared, input_ok, bucket_ok, stop_after, processed,
                 result, single, content, shard_of, emitted, bf, bf_added,
                 bf_h1, bf_h2, bf_pos, bf_op, bf_ops, cs, cs_true, cs_col,
                 cs_ovf, cs_ops, cs_op, hl, hl_hash, hl_op, hl_ops, pd_in,
                 pd_ret, pd_out, ts_base, ts_i, ts_j, ts_salt, mn_argv,
                 mn_pc, mn_g, mn_opt, mn_start, mn_cmd, mn_res, mn_exit, ex,
                 ex_op, ex_ub>>
\* paused.store(0, release)
reducer_clear_paused ==
  /\ dpc = "clear_paused"
  /\ paused' = 0
  /\ dpc' = "clear_merging"
  /\ UNCHANGED <<head_, tail_, data_, headCnt, tailCnt, ppc, p_head, p_next,
                 p_line, p_obs, p_seen, p_val, p_ret, cpc, c_tail, c_obs,
                 c_seen, c_out, c_ret, accepted, popped, cmd, has_jthread,
                 bucket_mode, done, merging, workers_ended, stop_req,
                 reducer_stop, rings, rdpc, next_line, shard, wpc,
                 counted_pause, item, locals, acc, global, finishing, rot,
                 bucket_start, snapshots, mpc, pop_started, pop_cleared,
                 rot_started, rot_cleared, input_ok, bucket_ok, stop_after,
                 processed, result, single, content, shard_of, emitted, bf,
                 bf_added, bf_h1, bf_h2, bf_pos, bf_op, bf_ops, cs, cs_true,
                 cs_col, cs_ovf, cs_ops, cs_op, hl, hl_hash, hl_op, hl_ops,
                 pd_in, pd_ret, pd_out, ts_base, ts_i, ts_j, ts_salt,
                 mn_argv, mn_pc, mn_g, mn_opt, mn_start, mn_cmd, mn_res,
                 mn_exit, ex, ex_op, ex_ub>>
\* merging.store(false, release); hll: bucket_start = bucket_end and loop
reducer_clear_merging ==
  /\ dpc = "clear_merging"
  /\ merging' = FALSE
  /\ rot_cleared' = rot_cleared + 1
  /\ IF cmd = "hll"
       THEN /\ bucket_start' = bucket_start + 1
            /\ dpc' = LoopStart
       ELSE /\ bucket_start' = bucket_start
            /\ dpc' = "break_test"
  /\ UNCHANGED <<head_, tail_, data_, headCnt, tailCnt, ppc, p_head, p_next,
                 p_line, p_obs, p_seen, p_val, p_ret, cpc, c_tail, c_obs,
                 c_seen, c_out, c_ret, accepted, popped, cmd, has_jthread,
                 bucket_mode, done, paused, workers_ended, stop_req,
                 reducer_stop, rings, rdpc, next_line, shard, wpc,
                 counted_pause, item, locals, acc, global, finishing, rot,
                 snapshots, mpc, pop_started, pop_cleared, rot_started,
                 input_ok, bucket_ok, stop_after, processed, result, single,
                 content, shard_of, emitted, bf, bf_added, bf_h1, bf_h2,
                 bf_pos, bf_op, bf_ops, cs, cs_true, cs_col, cs_ovf, cs_ops,
                 cs_op, hl, hl_hash, hl_op, hl_ops, pd_in, pd_ret, pd_out,
                 ts_base, ts_i, ts_j, ts_salt, mn_argv, mn_pc, mn_g, mn_opt,
                 mn_start, mn_cmd, mn_res, mn_exit, ex, ex_op, ex_ub>>
\* cms: if (done.load() && workers_ended.load()) break; bucket_start = bucket_end
reducer_break_test ==
  /\ dpc = "break_test"
  /\ IF done /\ workers_ended
       THEN /\ dpc' = "exit"
            /\ bucket_start' = bucket_start
       ELSE /\ dpc' = LoopStart
            /\ bucket_start' = bucket_start + 1
  /\ UNCHANGED <<head_, tail_, data_, headCnt, tailCnt, ppc, p_head, p_next,
                 p_line, p_obs, p_seen, p_val, p_ret, cpc, c_tail, c_obs,
                 c_seen, c_out, c_ret, accepted, popped, cmd, has_jthread,
                 bucket_mode, done, merging, paused, workers_ended, stop_req,
                 reducer_stop, rings, rdpc, next_line, shard, wpc,
                 counted_pause, item, locals, acc, global, finishing, rot,
                 snapshots, mpc, pop_started, pop_cleared, rot_started,
                 rot_cleared, input_ok, bucket_ok, stop_after, processed,
                 result, single, content, shard_of, emitted, bf, bf_added,
                 bf_h1, bf_h2, bf_pos, bf_op, bf_ops, cs, cs_true, cs_col,
                 cs_ovf, cs_ops, cs_op, hl, hl_hash, hl_op, hl_ops, pd_in,
                 pd_ret, pd_out, ts_base, ts_i, ts_j, ts_salt, mn_argv,
                 mn_pc, mn_g, mn_opt, mn_start, mn_cmd, mn_res, mn_exit, ex,
                 ex_op, ex_ub>>
ReaderStep == reader_open \/ reader_dispatch \/ reader_set_done

WorkerStep(w) ==
  \/ worker_check_merging(w)
  \/ worker_inc_paused(w)
  \/ worker_pop(w)
  \/ worker_add(w)
  \/ worker_dedup(w)
  \/ worker_stopq(w)

MainStep ==
  \/ main_spawn_worker
  \/ main_start_reader
  \/ main_start_reducer
  \/ main_bloom_open
  \/ main_bloom_fail_join
  \/ single_open
  \/ single_parse
  \/ single_line
  \/ single_eof
  \/ single_finish
  \/ main_join_reader
  \/ main_request_stop
  \/ main_join_workers
  \/ main_store_workers_ended
  \/ main_reducer_request_stop
  \/ main_join_reducer
  \/ main_merge
  \/ main_return

ReducerStep ==
  \/ reducer_parse
  \/ reducer_loop_test
  \/ reducer_decide
  \/ reducer_set_merging
  \/ reducer_wait
  \/ reducer_merge
  \/ reducer_reset
  \/ reducer_clear_paused
  \/ reducer_clear_merging
  \/ reducer_break_test

Next ==
  \/ reader_open
  \/ reader_dispatch
  \/ reader_set_done
  \/ \E w \in Workers : worker_check_merging(w)
  \/ \E w \in Workers : worker_inc_paused(w)
  \/ \E w \in Workers : worker_pop(w)
  \/ \E w \in Workers : worker_add(w)
  \/ \E w \in Workers : worker_dedup(w)
  \/ \E w \in Workers : worker_stopq(w)
  \/ main_spawn_worker
  \/ main_start_reader
  \/ main_start_reducer
  \/ main_bloom_open
  \/ main_bloom_fail_join
  \/ main_join_reader
  \/ main_request_stop
  \/ main_join_workers
  \/ main_store_workers_ended
  \/ main_reducer_request_stop
  \/ main_join_reducer
  \/ main_merge
  \/ main_return
  \/ single_open
  \/ single_parse
  \/ single_line
  \/ single_eof
  \/ single_finish
  \/ reducer_parse
  \/ reducer_loop_test
  \/ reducer_decide
  \/ reducer_set_merging
  \/ reducer_wait
  \/ reducer_merge
  \/ reducer_reset
  \/ reducer_clear_paused
  \/ reducer_clear_merging
  \/ reducer_break_test

Spec == Init /\ [][Next]_vars

\* every thread is an OS thread that keeps being scheduled
FairSpec ==
  /\ Spec
  /\ WF_vars(ReaderStep)
  /\ \A w \in Workers : WF_vars(WorkerStep(w))
  /\ WF_vars(MainStep)
  /\ WF_vars(ReducerStep)

\* ---- the pipeline without --bucket: no reducer thread is started, merging
\* is never stored, and the steps below are the only ones ever enabled
NonBucketInit == Init /\ ~bucket_mode

NonBucketWorkerStep(w) ==
  \/ worker_check_merging(w)
  \/ worker_pop(w)
  \/ worker_add(w)
  \/ worker_dedup(w)
  \/ worker_stopq(w)

NonBucketMainStep ==
  \/ main_spawn_worker
  \/ main_start_reader
  \/ main_bloom_open
  \/ main_bloom_fail_join
  \/ single_open
  \/ single_line
  \/ single_eof
  \/ single_finish
  \/ main_join_reader
  \/ main_request_stop
  \/ main_join_workers
  \/ main_store_workers_ended
  \/ main_merge
  \/ main_return

NonBucketNext ==
  \/ reader_open
  \/ reader_dispatch
  \/ reader_set_done
  \/ \E w \in Workers : worker_check_merging(w)
  \/ \E w \in Workers : worker_pop(w)
  \/ \E w \in Workers : worker_add(w)
  \/ \E w \in Workers : worker_dedup(w)
  \/ \E w \in Workers : worker_stopq(w)
  \/ main_spawn_worker
  \/ main_start_reader
  \/ main_bloom_open
  \/ main_bloom_fail_join
  \/ single_open
  \/ single_line
  \/ single_eof
  \/ single_finish
  \/ main_join_reader
  \/ main_request_stop
  \/ main_join_workers
  \/ main_store_workers_ended
  \/ main_merge
  \/ main_return

\* every thread is an OS thread that keeps being scheduled
NonBucketFairSpec ==
  /\ NonBucketInit /\ [][NonBucketNext]_vars
  /\ WF_vars(ReaderStep)
  /\ \A w \in Workers : WF_vars(NonBucketWorkerStep(w))
  /\ WF_vars(NonBucketMainStep)

\* under Spec, a run without --bucket never enables a step that
\* NonBucketNext leaves out
NonBucketStepsSuffice ==
  ~bucket_mode =>
    /\ ~merging /\ dpc \in {"none", "unstarted"}
    /\ mpc \notin {"start_reducer", "reducer_request_stop", "join_reducer", "s_parse"}
    /\ \A w \in Workers : wpc[w] # "inc"

\* ---------------------------------------------------------------- claims
IsPrefix(s, t) == Len(s) <= Len(t) /\ \A i \in 1 .. Len(s) : s[i] = t[i]

\* slot i lies in the published range [tail, head)
InRange(i) == \E k \in tailCnt .. (headCnt - 1) : k % RingCap = i

\* C7: in every interleaving of the producer's and the consumer's loads and
\* stores, the values returned by successful pops are, in the same order, a
\* prefix of the values accepted by successful pushes (none lost, duplicated
\* or invented).
C7_FifoPrefix == IsPrefix(popped, accepted)

\* the ring has wrapped around and every pushed value has been popped
C7_Witness ==
  /\ Len(popped) = MaxPush
  /\ headCnt > RingCap
  /\ popped = accepted

\* C8: head and tail stay in 0..C-1, the number of stored items is
\* (head - tail) mod C and never exceeds C-1; a push fails exactly when the
\* producer observed (head+1) mod C = tail, a pop fails exactly when the
\* consumer observed head = tail; head is written only by the producer's
\* publishing store and tail only by the consumer's.
C8_State ==
  /\ head_ \in Slots /\ tail_ \in Slots
  /\ headCnt - tailCnt = (head_ - tail_) % RingCap
  /\ headCnt - tailCnt <= RingCap - 1

C8_Step ==
  /\ (ppc = "load_tail" /\ ppc' # ppc) =>
        ((ppc' = "idle" /\ p_ret' = "full") <=> (p_head + 1) % RingCap = p_obs')
  /\ (ppc = "load_tail" /\ ppc' # ppc) =>
        ((ppc' = "write") <=> (p_head + 1) % RingCap # p_obs')
  /\ (cpc = "load_head" /\ cpc' # cpc) =>
        ((cpc' = "idle" /\ c_ret' = "empty") <=> c_tail = c_obs')
  /\ (cpc = "load_head" /\ cpc' # cpc) =>
        ((cpc' = "move") <=> c_tail # c_obs')
  /\ head_' # head_ => (ppc = "publish" /\ cpc' = cpc)
  /\ tail_' # tail_ => (cpc = "publish" /\ ppc' = ppc)

C8_RingInvariant == [](C8_State) /\ [][C8_Step]_vars

\* the ring is full (C-1 items), a push has failed on it and a pop has failed
\* on an empty ring before
C8_Witness ==
  /\ headCnt - tailCnt = RingCap - 1
  /\ p_ret = "full" /\ ppc = "idle"
  /\ c_ret = "empty"

\* C9: with the slot write and the index publication as separate steps, the
\* producer holds a slot under write only while it is outside the published
\* range [tail, head), the consumer a slot under read only while it is inside
\* it, and the two never hold the same slot.
C9_SlotExclusion ==
  /\ ppc \in {"write", "publish"} => ~InRange(p_head)
  /\ cpc \in {"move", "publish"} => InRange(c_tail)
  /\ (ppc \in {"write", "publish"} /\ cpc \in {"move", "publish"}) => p_head # c_tail

\* producer is writing a reused slot while the consumer is moving another out
C9_Witness ==
  /\ ppc = "publish" /\ cpc = "publish"
  /\ headCnt >= RingCap
  /\ p_head # c_tail
\* lines the reader has pushed into some ring
Dispatched == 1 .. (next_line - 1)

\* lines some worker has popped from its ring
Popped == {l \in Dispatched : \A w \in Workers : \A i \in 1 .. Len(rings[w]) : rings[w][i] # l}

\* snapshots that cover line l
SnapshotsOf(l) == {k \in 1 .. Len(snapshots) : l \in snapshots[k].items}

\* the reducer is between its first merge and the store that clears merging
\* (or its exit in the finishing rotation)
ReducerOwnsSketches == dpc \in {"merge", "reset", "clear_paused", "clear_merging"}

\* C1: a worker (hll worker_loop) exits only when done is set and its ring is
\* empty, so no line the reader pushed is left in a ring once its worker has
\* terminated.
C1_WorkerExitsDrained ==
  cmd = "hll" => \A w \in Workers : wpc[w] = "exit" => (done /\ rings[w] = << >>)

\* C2: in bucket mode (hll pipeline, valid bucket duration) every line the
\* reader dispatched is covered by exactly one emitted snapshot once the
\* command has returned.
C2_EachLineInOneSnapshot ==
  (cmd = "hll" /\ ~single /\ bucket_mode /\ bucket_ok /\ mpc = "returned") =>
    \A l \in Dispatched : Cardinality(SnapshotsOf(l)) = 1

\* C3: while the hll reducer merges or resets the worker sketches no worker
\* is in or can enter pop-and-add: in a non-finishing rotation every worker
\* has counted itself in paused and sits in the sleep branch with merging
\* still set, in the finishing rotation every worker has terminated.
C3_ReducerExclusive ==
  (cmd = "hll" /\ ReducerOwnsSketches) =>
    \A w \in Workers :
      IF finishing
        THEN wpc[w] = "exit"
        ELSE wpc[w] = "check" /\ counted_pause[w] /\ merging

\* a non-finishing rotation is resetting the sketches while a paused worker
\* still has a line waiting in its ring
C3_Witness ==
  /\ cmd = "hll" /\ dpc = "reset" /\ ~finishing
  /\ \E w \in Workers : rings[w] # << >> /\ locals[w].items # {}

\* C4: whenever the hll reducer has set merging, paused eventually reaches N
\* and the reducer eventually clears merging.
C4_PauseCompletes ==
  (cmd = "hll" /\ merging) ~> (~merging)

\* C5: a rotation decided with done and workers_ended both set neither sets
\* merging nor waits for paused = N (hll reducer and cms reducer).
C5_FinishingSkipsHandshake ==
  finishing => (~merging /\ dpc \notin {"set_merging", "wait"})

\* C6: for every emitted snapshot k of the hll reducer, a line popped after
\* rotation k-1 was cleared and before merging was set for rotation k is in
\* snapshot k, and a line popped after merging was cleared for rotation k is
\* not in snapshot k.
C6_RotationOrdering ==
  (cmd = "hll" /\ ~single) =>
    \A k \in 1 .. Len(snapshots) :
      \A l \in Popped :
        /\ (pop_started[l] < k /\ pop_cleared[l] = k - 1) => l \in snapshots[k].items
        /\ pop_cleared[l] >= k => l \notin snapshots[k].items

\* two snapshots, each holding a line popped in its own epoch
C6_Witness ==
  /\ cmd = "hll" /\ ~single /\ Len(snapshots) >= 2
  /\ \E l1, l2 \in Lines :
       /\ l1 \in snapshots[1].items /\ pop_started[l1] = 0
       /\ l2 \in snapshots[2].items /\ pop_cleared[l2] = 1

\* C10: in every build configuration the main thread merges the worker
\* sketches only after every worker thread has terminated, and every worker
\* has terminated when the command has returned.
C10_MergeAfterWorkersExit ==
  (~single /\ mpc \in {"merge", "returned"}) => \A w \in Workers : wpc[w] = "exit"

\* C11: in non-bucket cms mode every merge of a worker sketch into the global
\* sketch is accepted, so after the final merge the global sketch holds the
\* counts of every line every worker processed.
C11_FinalMergeComplete ==
  (cmd = "cms" /\ ~bucket_mode /\ mpc \in {"dtor", "returned"}) =>
    \A w \in Workers :
      same_params(global, locals[w]) /\ locals[w].items \subseteq global.items

\* C12: in bucket-mode cms, when a rotation has merged the worker sketches
\* the accumulator was merge-compatible with every one of them and holds the
\* counts of all N workers.
C12_RotationMergeComplete ==
  (cmd = "cms" /\ bucket_mode /\ dpc = "reset") =>
    \A w \in Workers :
      same_params(acc, locals[w]) /\ locals[w].items \subseteq acc.items

\* C13: in the hll pipeline every worker sketch, the global sketch and the
\* accumulator have the same parameters, so the per-rotation merge and the
\* final merge take in every worker's registers.
C13_HllMergesSucceed ==
  cmd = "hll" =>
    /\ \A w \in Workers :
         same_params(global, locals[w]) /\ same_params(acc, locals[w])
    /\ dpc = "reset" => \A w \in Workers : locals[w].items \subseteq acc.items
    /\ (~single /\ ~bucket_mode /\ mpc \in {"dtor", "returned"}) =>
         \A w \in Workers : locals[w].items \subseteq global.items

\* the final merge has taken in non-empty sketches of all workers
C13_Witness ==
  /\ cmd = "hll" /\ ~single /\ ~bucket_mode /\ mpc = "returned"
  /\ \A w \in Workers : locals[w].items # {}
  /\ global.items = Lines

\* C14: in sharded bloom dedup every line is pushed to the ring its text
\* hashes to (equal lines go to the same worker), and no two lines written to
\* the output have the same text.
C14_DedupAtMostOnce ==
  (cmd = "bloom" /\ ~single) =>
    /\ \A w \in Workers : \A i \in 1 .. Len(rings[w]) :
         shard_of[content[rings[w][i]]] = w - 1
    /\ \A i, j \in 1 .. Len(emitted) :
         i # j => content[emitted[i]] # content[emitted[j]]

\* two equal lines were read, both reached their worker, one was written
C14_Witness ==
  /\ cmd = "bloom" /\ ~single /\ mpc = "returned"
  /\ content[1] = content[2] /\ next_line > 2
  /\ \A w \in Workers : rings[w] = << >>
  /\ Cardinality({i \in 1 .. Len(emitted) : content[emitted[i]] = content[1]}) = 1

\* C15: with stop_after = K > 0 the reader dispatches at most K lines, and
\* when it has set done it has dispatched exactly min(K, number of input
\* lines); with stop_after = 0 it has dispatched every input line.
C15_StopAfter ==
  /\ stop_after > 0 => next_line - 1 <= stop_after
  /\ (~single /\ input_ok /\ done) =>
       next_line - 1 = IF stop_after = 0 \/ stop_after > NumLines
                         THEN NumLines ELSE stop_after

\* the reader stopped at the limit with input left over
C15_Witness ==
  /\ ~single /\ input_ok /\ done
  /\ stop_after > 0 /\ stop_after < NumLines /\ next_line - 1 = stop_after

\* the failed open has been detected: by the reader thread (hll, cms), by
\* the main thread (bloom, single-worker path)
OpenFailed ==
  /\ ~input_ok
  /\ \/ rdpc = "exit"
     \/ mpc = "b_fail_join"
     \/ single /\ mpc = "returned"

\* C17: when the input cannot be opened no reader, worker or reducer thread
\* has been started at the point where the failure is detected, and the
\* command returns the I/O error result.
C17_OpenFailureBeforeThreads ==
  /\ OpenFailed =>
       /\ rdpc = "unstarted"
       /\ \A w \in Workers : wpc[w] = "unstarted"
       /\ dpc \in {"unstarted", "none"}
  /\ (~input_ok /\ mpc = "returned") => result = "IOError"

\* C18: when the configured bucket duration does not parse, the command
\* returns a configuration error and emits no snapshot, in the single-worker
\* path and in the multi-worker path.
C18_BucketParseError ==
  (bucket_mode /\ ~bucket_ok /\ input_ok /\ mpc = "returned") =>
    (result = "ConfigError" /\ snapshots = << >>)

\* end of input reached and nothing left to process (hll, bucket mode)
EndReached ==
  /\ cmd = "hll" /\ bucket_mode /\ bucket_ok
  /\ IF single THEN mpc = "s_finish"
     ELSE done /\ \A w \in Workers : wpc[w] = "exit"

\* the final snapshot has been emitted and the emitter has stopped
FinalEmitted ==
  IF single THEN mpc = "returned" ELSE dpc = "exit" /\ finishing

\* C16: in bucket mode, once the reader has reached end of input and all
\* workers have exited, the final snapshot is eventually emitted and the
\* reducer stops.
C16_FinalSnapshotEmitted == EndReached ~> FinalEmitted

\* every element a filter took in, by add or through a merge, is reported
C19_State ==
  \A f \in DOMAIN bf : \A e \in bf_added[f] : filter_might_contain(f, e[1])

\* no step clears a bit
C19_Step == \A f \in DOMAIN bf : bf[f].bits \subseteq bf'[f].bits

\* C19: after any sequence of add and successful merge operations,
\* might_contain(x) is true for every x added to the filter or added to a
\* filter before that was merged into it, and no add or merge clears a bit.
C19_NoFalseNegatives == [](C19_State) /\ [][C19_Step]_vars

\* a filter reports an element it only received through a merge
C19_Witness ==
  /\ bf # << >>
  /\ \E x \in Keys :
       /\ <<x, "merge">> \in bf_added[1] /\ <<x, "add">> \notin bf_added[1]
       /\ bf_added[1] # bf_added[2]
       /\ \E y \in Keys : <<y, "add">> \in bf_added[1]

\* C20: as long as no counter has overflowed 64 bits, estimate(x) is at least
\* the total count added for x in the sketch and in every sketch merged into
\* it.
C20_NoUnderestimate ==
  ~cs_ovf =>
    \A s \in DOMAIN cs : \A x \in Keys :
      ~Less64(cms_estimate(s, x), cs_true[s][x])

\* C28: make_by_precision(p, cfg) succeeds exactly when 4 <= p <= 20 and then
\* returns a sketch of precision p with 2^p registers, all zero, and hash
\* config cfg; for every other p of 0..255 it returns InvalidArgument and no
\* sketch
C28_MakeByPrecision ==
  /\ \A p \in 0 .. 255 :
       (make_by_precision(p, g_hash).st = "ok") <=> (4 <= p /\ p <= 20)
  /\ hl_op.op = "make" =>
       LET s == hl[hl_op.a]
       IN  IF 4 <= hl_op.p /\ hl_op.p <= 20
             THEN /\ hl_op.res = "ok" /\ s.st = "ok"
                  /\ s.p = hl_op.p /\ s.m = 2 ^ hl_op.p
                  /\ {i \in DOMAIN s.registers : s.registers[i] # 0} = {}
                  /\ s.hash_cfg = hl_op.h
             ELSE hl_op.res = "InvalidArgument" /\ s.st = "error"

C28_Witness ==
  /\ hl_op.op = "make" /\ hl_op.p = 20 /\ hl[hl_op.a].st = "ok"
  /\ \E s \in Sketches : hl[s].st = "error"

\* C25: every register of a sketch of precision p is 0 or a rank in
\* 1 .. 64 - p + 1, after construction and after every add and merge
C25_State ==
  \A s \in Sketches :
    hl[s].st = "ok" =>
      \A i \in DOMAIN hl[s].registers :
        /\ i \in 0 .. (hl[s].m - 1)
        /\ hl[s].registers[i] \in 0 .. (64 - hl[s].p + 1)

\* C25: add never lowers a register
C25_Step ==
  hl_op'.op = "add" =>
    \A i \in DOMAIN hl[hl_op'.a].registers :
      reg(hl'[hl_op'.a], i) >= reg(hl[hl_op'.a], i)

\* C25: registers stay 0 or a rank in 1 .. 64 - p + 1, and add never lowers one
C25_RegisterRange == [](C25_State) /\ [][C25_Step]_vars

C25_Witness ==
  \E s \in Sketches :
    /\ hl[s].st = "ok" /\ hl_op.op = "add" /\ hl_op.a = s
    /\ \E i \in DOMAIN hl[s].registers : hl[s].registers[i] = 64 - hl[s].p + 1
    /\ \E x, y \in Keys :
         /\ <<hl[s].hash_cfg, x>> \in DOMAIN hl_hash
         /\ <<hl[s].hash_cfg, y>> \in DOMAIN hl_hash
         /\ hl_hash[<<hl[s].hash_cfg, x>>] = Zero64
         /\ hl_hash[<<hl[s].hash_cfg, y>>] = U64OfNat(1)

\* C22: a successful merge leaves in every register of the receiver the
\* larger of the two registers and leaves the argument as it was
C22_Step ==
  (hl_op'.op = "merge" /\ hl_op'.res = "ok") =>
    LET a == hl_op'.a
        b == hl_op'.b
    IN  /\ \A i \in (DOMAIN hl[a].registers) \cup (DOMAIN hl[b].registers)
                      \cup (DOMAIN hl'[a].registers) :
             reg(hl'[a], i) = max_u8(reg(hl[a], i), reg(hl[b], i))
        /\ hl'[b] = hl[b]
        /\ hl[a].registers = hl[b].registers => hl'[a] = hl[a]

\* C22: for two sketches that can be merged, merging the argument a second
\* time changes nothing and both merge orders give the same registers
C22_State ==
  \A a, b \in Sketches :
    (hl[a].st = "ok" /\ hl[b].st = "ok" /\ hll_merge_ok(hl[a], hl[b])) =>
      /\ hll_merge(hll_merge(hl[a], hl[b]), hl[b]) = hll_merge(hl[a], hl[b])
      /\ hll_merge(hl[a], hl[a]) = hl[a]
      /\ hll_merge(hl[a], hl[b]).registers = hll_merge(hl[b], hl[a]).registers

\* C22: hll merge is the register-wise maximum, idempotent and commutative
C22_MergeMax == [](C22_State) /\ [][C22_Step]_vars

C22_Witness ==
  /\ hl_op.op = "merge" /\ hl_op.res = "ok"
  /\ \E i, j \in DOMAIN hl[hl_op.a].registers :
       /\ reg(hl[hl_op.a], i) > reg(hl[hl_op.b], i)
       /\ reg(hl[hl_op.a], j) = reg(hl[hl_op.b], j)

\* a successful merge ORs the argument's bits into the receiver and changes
\* nothing else
C23_Step ==
  (bf_op'.op = "merge" /\ bf_op'.res = "ok") =>
    LET a == bf_op'.a
        b == bf_op'.b
    IN  /\ bf'[a].bits = bf[a].bits \cup bf[b].bits
        /\ bf'[b] = bf[b]
        /\ bf'[a].m_bits = bf[a].m_bits /\ bf'[a].words = bf[a].words
        /\ bf'[a].k = bf[a].k /\ bf'[a].hash_cfg = bf[a].hash_cfg

\* C23: a successful Bloom merge leaves the receiver's bit array equal to the
\* bitwise OR of its previous bit array and the argument's, and leaves the
\* argument and the receiver's m, k and hash config unchanged
C23_MergeIsUnion == [][C23_Step]_vars

\* a merge has joined two filters neither of which contained the other
C23_Witness ==
  /\ bf_op.op = "merge" /\ bf_op.res = "ok"
  /\ bf[bf_op.b].bits # {} /\ bf[bf_op.a].bits # bf[bf_op.b].bits
  /\ \E x, y \in Keys :
       /\ <<x, "add">> \in bf_added[bf_op.a] /\ <<y, "add">> \in bf_added[bf_op.b]
       /\ ~(bf_pos[bf_op.a][x] \subseteq bf[bf_op.b].bits)
       /\ ~(bf_pos[bf_op.a][y] \subseteq bf_pos[bf_op.a][x])

\* C26: every filter a factory returns has a bit count m >= 64 that is a
\* multiple of 64, exactly m/64 words and a hash count k in 1..32, and add
\* and merge keep these values
C26_FilterShape ==
  \A f \in DOMAIN bf :
    bf[f].st = "ok" =>
      /\ bf[f].m_bits >= 64 /\ bf[f].m_bits % 64 = 0
      /\ bf[f].words * 64 = bf[f].m_bits
      /\ bf[f].k \in 1 .. 32

\* C27: make_by_fp fails for p outside (0, 1), make_by_mem fails for a byte
\* count that is zero or not a multiple of 8, and might_contain always
\* returns an answer
C27_FactoryErrors ==
  /\ bf_op.op = "make_by_fp" =>
       (bf_op.arg[2].cls # "pow2" => bf_op.res = "InvalidArgument")
  /\ bf_op.op = "make_by_mem" =>
       ((bf_op.arg[2] = 0 \/ bf_op.arg[2] % 8 # 0) =>
          bf_op.res = "InvalidArgument")
  /\ bf_op.op = "might_contain" => bf_op.res \in {"true", "false"}

\* a successful merge adds the argument's cells to the receiver's, modulo
\* 2^64, and changes nothing else
C24_Step ==
  (cs_op'.op = "merge" /\ cs_op'.res = "ok") =>
    LET a == cs_op'.a
        b == cs_op'.b
    IN  /\ DOMAIN cs'[a].table = DOMAIN cs[a].table
        /\ \A i \in DOMAIN cs[a].table :
             cs'[a].table[i] = Add64(cs[a].table[i], cs[b].table[i])
        /\ cs'[b] = cs[b]
        /\ cs'[a].depth = cs[a].depth /\ cs'[a].width = cs[a].width
        /\ cs'[a].hash_cfg = cs[a].hash_cfg

\* C24: a successful CMS merge leaves every cell of the receiver equal to its
\* previous value plus the argument's cell modulo 2^64, and leaves the
\* argument and the receiver's depth, width and hash config unchanged
C24_MergeIsSum == [][C24_Step]_vars

\* a merge has just added non-zero cells, one of them with wrap-around: the
\* receiver's cell is below the argument's
C24_Witness ==
  /\ cs_op.op = "merge" /\ cs_op.res = "ok"
  /\ \E i \in DOMAIN cs[cs_op.a].table :
       /\ cs[cs_op.b].table[i] # Zero64
       /\ Less64(cs[cs_op.a].table[i], cs[cs_op.b].table[i])
  /\ \E j \in DOMAIN cs[cs_op.a].table :
       Less64(cs[cs_op.b].table[j], cs[cs_op.a].table[j])

\* equal hash kind, seed and thread salt
SameHash(x, y) ==
  /\ x.hash_cfg.kind = y.hash_cfg.kind /\ x.hash_cfg.seed = y.hash_cfg.seed
  /\ x.hash_cfg.thread_salt = y.hash_cfg.thread_salt

\* the merge just made returned InvalidArgument and left the receiver as it
\* was if the parameters differ, and succeeded if they are equal
C21_Hll ==
  (hl_op'.op = "merge") =>
    LET a == hl[hl_op'.a]
        b == hl[hl_op'.b]
    IN  IF a.p = b.p /\ SameHash(a, b)
          THEN hl_op'.res = "ok"
          ELSE hl_op'.res = "InvalidArgument" /\ hl'[hl_op'.a] = a

C21_Bloom ==
  (bf_op'.op = "merge") =>
    LET a == bf[bf_op'.a]
        b == bf[bf_op'.b]
    IN  IF a.m_bits = b.m_bits /\ a.k = b.k /\ SameHash(a, b)
          THEN bf_op'.res = "ok"
          ELSE bf_op'.res = "InvalidArgument" /\ bf'[bf_op'.a] = a

C21_Cms ==
  (cs_op'.op = "merge") =>
    LET a == cs[cs_op'.a]
        b == cs[cs_op'.b]
    IN  IF a.depth = b.depth /\ a.width = b.width /\ SameHash(a, b)
          THEN cs_op'.res = "ok"
          ELSE cs_op'.res = "InvalidArgument" /\ cs'[cs_op'.a] = a

\* C21: merge(a, b) returns InvalidArgument and leaves a unchanged whenever
\* a and b differ in p (HLL), in m or k (Bloom), in depth or width (CMS), or
\* in hash kind, seed or thread salt, and succeeds when all of these are equal
C21_MergeCompatibility == [][C21_Hll /\ C21_Bloom /\ C21_Cms]_vars

\* a filter holding bits has just refused a filter of another size
C21_Witness ==
  /\ bf_op.op = "merge" /\ bf_op.res = "InvalidArgument"
  /\ bf[bf_op.a].bits # {} /\ bf[bf_op.b].bits # {}
  /\ bf[bf_op.a].m_bits # bf[bf_op.b].m_bits
  /\ bf[bf_op.a].k = bf[bf_op.b].k /\ SameHash(bf[bf_op.a], bf[bf_op.b])

\* number of leading decimal digits of s
RECURSIVE LeadingDigits(_, _)
LeadingDigits(s, i) ==
  IF i <= Len(s) /\ IsDigit(s[i]) THEN 1 + LeadingDigits(s, i + 1) ELSE 0

\* the decimal number written by characters i .. n of s after the number num,
\* as 16 bytes
RECURSIVE DecimalValue(_, _, _, _)
DecimalValue(s, i, n, num) ==
  IF i > n THEN num
  ELSE DecimalValue(s, i + 1, n,
         wide_norm([j \in 1 .. 16 |->
                      num[j] * 10 + (IF j = 1 THEN DigitVal[s[i]] ELSE 0)], 1, 0))

\* s is a non-empty decimal number immediately followed by ms, s, m or h
WellFormed(s) ==
  /\ LeadingDigits(s, 1) >= 1
  /\ SubSeq(s, LeadingDigits(s, 1) + 1, Len(s)) \in DOMAIN UnitNs

\* number x unit in nanoseconds, as 16 bytes
ExactNs(s) ==
  LET n == LeadingDigits(s, 1)
  IN  WideMul(DecimalValue(s, 1, n, Wide(Zero64)),
              Wide(UnitNs[SubSeq(s, n + 1, Len(s))]))

\* C29: parse_duration succeeds only on a non-empty decimal number followed by
\* ms, s, m or h, and then out is number x unit nanoseconds exactly; it
\* returns false for every other string and whenever the digits overflow 64
\* bits or number x unit does not fit the signed 64-bit nanosecond count
C29_ParseDuration ==
  pd_ret \notin {"idle", "none"} =>
    LET fits == WellFormed(pd_in) /\ FitsInt64(ExactNs(pd_in))
    IN  /\ pd_ret = "true" => (fits /\ Wide(pd_out) = ExactNs(pd_in))
        /\ ~fits => pd_ret = "false"

\* C30: for one base, two thread indices that differ as 64-bit values give
\* different salts, and equal indices give equal salts
C30_DistinctSalts ==
  ts_salt # << >> =>
    /\ ts_i # ts_j => ts_salt[1] # ts_salt[2]
    /\ ts_i = ts_j => ts_salt[1] = ts_salt[2]

\* the unit test's calls: base 0xDEADBEEF, indices 1 and 2
C30_Witness ==
  /\ ts_salt # << >>
  /\ ts_base = U64(239, 190, 173, 222, 0, 0, 0, 0)
  /\ ts_i = U64OfNat(1) /\ ts_j = U64OfNat(2)
  /\ ts_salt[1] # ts_salt[2]

\* C31: the exit code is the command result: 0 for success, 2 for a general
\* error, 3 for an I/O error, 5 for a configuration error, and 2 for an
\* argument error found by main itself.
C31_ExitCodes ==
  mn_pc = "exit" =>
    /\ mn_res # -1 => mn_exit = mn_res
    /\ mn_res = -1 => mn_exit \in {ExitCode.Success, ExitCode.ArgumentError}

\* C39: when the option loop ends with an error, main returns the argument
\* error code and no subcommand is ever called.
C39_ParseErrorStops ==
  mn_opt = "Error" =>
    /\ mn_cmd = "none" /\ mn_pc # "cmd"
    /\ mn_pc = "exit" => mn_exit = ExitCode.ArgumentError
\* the payload of an object: its variant and the content of the live member
Payload(o) == IF o.has_ THEN <<"value", o.val>> ELSE <<"error", o.err>>

\* exactly the member has_ selects is alive (none after the destructor)
OnePayload(o) ==
  CASE o.st = "live" ->
         IF o.has_ THEN o.val # Dead /\ o.err = Dead
         ELSE o.err # Dead /\ o.val = Dead
    [] OTHER -> o.val = Dead /\ o.err = Dead

C32_State == ~ex_ub /\ \A o \in Objects : OnePayload(ex[o])

C32_Step ==
  LET op == ex_op'
  IN  op.op \in {"copy_construct", "move_construct", "copy_assign", "move_assign"}
      => /\ ex'[op.dst].st = "live"
         /\ Payload(ex'[op.dst]) = Payload(ex[op.src])
         /\ op.op \in {"copy_construct", "copy_assign"}
              => ex'[op.src] = ex[op.src]
         /\ ex'[op.src].st = "live" /\ ex'[op.src].has_ = ex[op.src].has_

\* C32: copying or moving a Result, by construction or assignment, gives the
\* target the source's variant and payload, a copy leaves the source as it
\* was, exactly one payload is alive in every object, and a destructor only
\* destroys the payload of the current variant.
C32_CopyMove == [](C32_State) /\ [][C32_Step]_vars

C32_Witness ==
  /\ ex_op.op = "copy_assign" /\ ex_op.dst # ex_op.src
  /\ ~ex[ex_op.dst].has_
  /\ \E o \in Objects : ex[o].st = "destroyed" /\ ex[o].has_
\* C33: paused stays within 0 .. N, and while a rotation is in progress (from
\* the store merging := true to the store paused := 0) paused counts exactly
\* the workers whose counted_pause flag is set: each of them incremented
\* once for this rotation, and no flag is left over from an earlier rotation
\* to suppress the increment.
C33_PausedOncePerRotation ==
  ~single =>
    /\ paused \in 0 .. NumWorkers
    /\ merging /\ dpc \in {"wait", "merge", "reset", "clear_paused"}
         => paused = Cardinality({w \in Workers : counted_pause[w]})
\* a push / try_emplace returns false
FailedPush == ppc = "load_tail" /\ ppc' = "idle"

C34_Step ==
  FailedPush => /\ p_ret' = "full"
                /\ head_' = head_ /\ tail_' = tail_ /\ data_' = data_
                /\ p_line' = p_line /\ accepted' = accepted

\* the lines enqueued, and the lines popped, are 1, 2, 3, ... in order: each
\* once, with its content
C34_State ==
  /\ \A i \in 1 .. Len(accepted) : accepted[i] = i
  /\ \A i \in 1 .. Len(popped) : popped[i] = i

C35_Step ==
  (~single /\ dpc = "reset" /\ dpc' # "reset")
    => /\ \A w \in Workers :
            /\ locals'[w].items = {}
            /\ locals'[w].hash_cfg = locals[w].hash_cfg
            /\ same_params(acc', locals'[w]) = same_params(acc, locals[w])
       /\ acc'.items = {}
       /\ acc'.hash_cfg = acc.hash_cfg

C35_State ==
  /\ (~single /\ dpc \in {"clear_paused", "clear_merging"})
       => /\ acc.items = {}
          /\ \A w \in Workers : locals[w].items = {}
  /\ \A j \in 1 .. Len(snapshots), k \in 1 .. Len(snapshots) :
       j < k => snapshots[j].items \cap snapshots[k].items = {}

\* C35: the reset of a rotation leaves every worker sketch and the
\* accumulator empty, each with the hash config (and so the compatibility
\* with the others) it had before; they stay empty until the rotation
\* completes, and no line of one bucket's snapshot appears in a later one.
C35_RotationReset == [](C35_State) /\ [][C35_Step]_vars

C35_Witness ==
  /\ ~single /\ rot_cleared >= 1 /\ Len(snapshots) >= 2
  /\ snapshots[1].items # {} /\ snapshots[2].items # {}
\* C36: the non-bucket hll command merges worker sketches that together
\* hold what one sketch fed with every line would hold, whatever the number
\* of workers, the sharding and the interleaving: the merged result has
\* every line the reader dispatched.
C36_ResultIndependent ==
  (cmd = "hll" /\ ~single /\ ~bucket_mode /\ mpc \in {"dtor", "returned"})
    => global.items = Dispatched
\* the pipeline has terminated: done is stored and the reader has left (or
\* was not started, when cmd_bloom could not open the input), every worker
\* left its loop, and the command returned after its joins
Terminated ==
  /\ mpc = "returned"
  /\ ~single => /\ done /\ rdpc \in {"exit", "unstarted"}
                /\ \A w \in Workers : wpc[w] = "exit"

\* C37: without --bucket, on a finite input and with every thread scheduled
\* fairly, the reader stores done (end of input, stop_after reached, or the
\* input could not be opened), every worker exits and the command returns;
\* the reader does not stay blocked on a full ring.
C37_NonBucketTerminates == ~bucket_mode ~> Terminated

\* the reader is held by a full ring with a line still to dispatch
ReaderHeldByFullRing ==
  /\ ~bucket_mode /\ rdpc = "run" /\ next_line <= NumLines
  /\ \E w \in Workers : Len(rings[w]) = PipeCap - 1

\* h >> (64 - p) as a number, for p <= 24
TopBits(h, p) ==
  LET v == Shr64(h, 64 - p) IN v[1] + 256 * v[2] + 65536 * v[3]

\* 1 + the number of leading zeros of the low 64 - p bits of h read as a
\* (64 - p)-bit word, and 64 - p + 1 when those bits are all zero
LowBitsRank(h, p) ==
  LET ones == {j \in 0 .. (63 - p) : BitAt(h, j) = 1}
  IN  IF ones = {} THEN 64 - p + 1
      ELSE 1 + ((63 - p) - (CHOOSE j \in ones : \A k \in ones : k <= j))

\* the register and the rank as C38 states them, for each sample hash and
\* each precision of 4 .. 20
ClaimedCell ==
  [h \in HllHashSamples |->
     [p \in 4 .. 20 |-> [idx |-> TopBits(h, p), r |-> LowBitsRank(h, p)]]]

\* C38: add of an element with hash h to a sketch of precision p sets register
\* h >> (64 - p) to the larger of its old value and the rank of the low
\* 64 - p bits of h, and changes no other register and no other sketch
C38_Step ==
  hl_op'.op = "add" =>
    LET s == hl_op'.a
        h == hl_hash'[<<hl[s].hash_cfg, hl_op'.x>>]
        i == ClaimedCell[h][hl[s].p].idx
        rho == ClaimedCell[h][hl[s].p].r
    IN  /\ reg(hl'[s], i) = (IF reg(hl[s], i) > rho THEN reg(hl[s], i) ELSE rho)
        /\ \A j \in ((DOMAIN hl[s].registers) \cup (DOMAIN hl'[s].registers)) \ {i} :
             reg(hl'[s], j) = reg(hl[s], j)
        /\ hl'[s].p = hl[s].p /\ hl'[s].m = hl[s].m
        /\ hl'[s].hash_cfg = hl[s].hash_cfg
        /\ \A t \in Sketches \ {s} : hl'[t] = hl[t]

\* C38: once a sketch is constructed, the register and the rank add computes
\* for a hash are the top p bits and the rank of the low 64 - p bits, at
\* every precision of 4 .. 20
C38_State ==
  \A s \in Sketches :
    hl[s].st = "ok" =>
      /\ hl[s].p \in 4 .. 20
      /\ \A h \in HllHashSamples, p \in 4 .. 20 :
           /\ hll_cell[h][p].idx = ClaimedCell[h][p].idx
           /\ hll_cell[h][p].r = ClaimedCell[h][p].r

C38_AddUpdatesOneRegister == [](C38_State) /\ [][C38_Step]_vars

\* a sketch of precision 20 holds a rank in another register and the last
\* add, of an element hashing to 2^59 + 2^40, has set register 2^15 to 4
C38_Witness ==
  /\ hl_op.op = "add"
  /\ LET s == hl[hl_op.a]
     IN  /\ s.st = "ok" /\ s.p = 20
         /\ <<s.hash_cfg, hl_op.x>> \in DOMAIN hl_hash
         /\ hl_hash[<<s.hash_cfg, hl_op.x>>] = MidBits64
         /\ reg(s, 32768) = 4
         /\ \E j \in DOMAIN s.registers : j # 32768 /\ s.registers[j] > 0

\* a multi-worker run without --bucket has read its whole input and ended
C37_Witness ==
  /\ ~bucket_mode /\ ~single /\ Terminated
  /\ next_line = NumLines + 1
====
